---- MODULE Spec2Model ----
(***************************************************************************)
(* libcomfoair: the ComfoControl client (session state machine, request /  *)
(* response correlation, property subscriptions) on top of the TCP         *)
(* transport.                                                              *)
(*                                                                         *)
(* Scheduling follows the Node.js run loop.  A call of the public API runs *)
(* synchronously up to its first await.  `await this.ensureConnected()`    *)
(* in send() always suspends for one microtask tick, so the write of the   *)
(* request is a continuation kept in the FIFO queue `microtasks`.  Socket  *)
(* events and timers are macrotasks: they run only when that queue is      *)
(* empty.  User code can issue further calls while the continuations of    *)
(* its own earlier calls are still queued (same synchronous block, or its  *)
(* own microtasks), but not in the middle of the drain that follows a      *)
(* socket event or a timer.                                                *)
(***************************************************************************)
EXTENDS Integers, Sequences, FiniteSets, TLC

\* ---------------------------------------------------------------- bounds
MaxCalls == 2       \* calls of the public API in one behaviour of Spec
MaxRaceCalls == 3   \* ... of SpecRace
MaxListenCalls == 2 \* ... of SpecListen
MaxTransportCalls == 2 \* ... of SpecTransport
MaxMessageId == 4   \* keep-alive messages stop at this message id
MaxSubCalls == 2    \* ... of SpecSub
MaxQueue == 2       \* calls the user issues before letting continuations run
MaxChunkCalls == 1  \* calls of the public API in one behaviour of SpecChunk
MaxChunk == 2       \* envelopes in one chunk of socket data
MaxIterations == 8  \* passes of the loop of fromBinary that are followed

Props == {1, 2}                 \* property ids (pdid) used by the callers
Listeners == {"a", "b"}
\* a listener whose body throws
Throwers == {"t"}         \* listener functions, by identity

\* ------------------------------------------------------------- constants
NO_OPERATION == "NO_OPERATION"
REGISTER_DEVICE_REQUEST == "REGISTER_DEVICE_REQUEST"
START_SESSION_REQUEST == "START_SESSION_REQUEST"
CLOSE_SESSION_REQUEST == "CLOSE_SESSION_REQUEST"
KEEP_ALIVE == "KEEP_ALIVE"
CN_TIME_REQUEST == "CN_TIME_REQUEST"
CN_RPDO_REQUEST == "CN_RPDO_REQUEST"
REGISTER_DEVICE_CONFIRM == "REGISTER_DEVICE_CONFIRM"
START_SESSION_CONFIRM == "START_SESSION_CONFIRM"
CLOSE_SESSION_CONFIRM == "CLOSE_SESSION_CONFIRM"
CN_TIME_CONFIRM == "CN_TIME_CONFIRM"
CN_RPDO_CONFIRM == "CN_RPDO_CONFIRM"
CN_RPDO_NOTIFICATION == "CN_RPDO_NOTIFICATION"
CN_NODE_NOTIFICATION == "CN_NODE_NOTIFICATION"
GATEWAY_NOTIFICATION == "GATEWAY_NOTIFICATION"
CN_ALARM_NOTIFICATION == "CN_ALARM_NOTIFICATION"

\* Opcodes that are exempt from the session check.
SESSION_EXEMPT_OPCODES == {REGISTER_DEVICE_REQUEST, START_SESSION_REQUEST, KEEP_ALIVE}

CN_RMI_REQUEST == "CN_RMI_REQUEST"
CN_RMI_RESPONSE == "CN_RMI_RESPONSE"

\* request opcode -> confirm opcode (NO_OPERATION: no confirm expected)
requestMessages ==
    [op \in {REGISTER_DEVICE_REQUEST, START_SESSION_REQUEST, CLOSE_SESSION_REQUEST,
             KEEP_ALIVE, CN_TIME_REQUEST, CN_RPDO_REQUEST, CN_RMI_REQUEST} |->
        CASE op = REGISTER_DEVICE_REQUEST -> REGISTER_DEVICE_CONFIRM
          [] op = START_SESSION_REQUEST -> START_SESSION_CONFIRM
          [] op = CLOSE_SESSION_REQUEST -> CLOSE_SESSION_CONFIRM
          [] op = KEEP_ALIVE -> NO_OPERATION
          [] op = CN_TIME_REQUEST -> CN_TIME_CONFIRM
          [] op = CN_RPDO_REQUEST -> CN_RPDO_CONFIRM
          [] op = CN_RMI_REQUEST -> CN_RMI_RESPONSE]

\* opcodes that have an entry in ComfoControlClient.handlers
handlers == {CLOSE_SESSION_REQUEST, CN_NODE_NOTIFICATION, CN_RPDO_NOTIFICATION,
             GATEWAY_NOTIFICATION, CN_ALARM_NOTIFICATION}

\* opcodes the user passes to send() directly
SendOpcodes == {KEEP_ALIVE, CN_TIME_REQUEST}

ConfirmOpcodes == {REGISTER_DEVICE_CONFIRM, START_SESSION_CONFIRM, CLOSE_SESSION_CONFIRM,
                   CN_TIME_CONFIRM, CN_RPDO_CONFIRM}

NoMsg == [opcode |-> NO_OPERATION, id |-> 0, result |-> "absent", pdid |-> 0]

\* ComfoControlMessage.resultCode: a missing result counts as OK
resultCode(m) == IF m.result = "absent" THEN "OK" ELSE m.result

\* consts.ts: the uuid the app uses
CLIENT_UUID ==
    <<"2", "0", "2", "0", "0", "4", "2", "8", "0", "0", "0", "0", "0", "0", "0", "0", "0", "0", "0", "0", "0", "0", "0", "0", "0", "9", "0", "8", "0", "4", "0", "7">>

\* options.uuid: the uuid of the gateway
GATEWAY_UUID == <<"a", "b", "c", "d">>

\* an opcode number the Opcode enum does not have; opcodes[99] is undefined
UNKNOWN_OPCODE == "99"

\* enum Opcode and enum Result of the protocol definition, by name
Opcode ==
    [NO_OPERATION |-> 0, REGISTER_DEVICE_REQUEST |-> 2, START_SESSION_REQUEST |-> 3,
     CLOSE_SESSION_REQUEST |-> 4, REGISTER_DEVICE_CONFIRM |-> 52,
     START_SESSION_CONFIRM |-> 53, CLOSE_SESSION_CONFIRM |-> 54,
     GATEWAY_NOTIFICATION |-> 100, KEEP_ALIVE |-> 101, CN_TIME_REQUEST |-> 30,
     CN_TIME_CONFIRM |-> 31, CN_NODE_NOTIFICATION |-> 32, CN_RPDO_REQUEST |-> 38,
     CN_RPDO_CONFIRM |-> 39, CN_RPDO_NOTIFICATION |-> 40]

Result == [OK |-> 0, NOT_ALLOWED |-> 5]

\* what the socket's data event carries: the envelopes the gateway wrote and
\* the bytes that arrived
NoChunk == [event |-> FALSE, envelopes |-> <<>>, data |-> <<>>, cut |-> 0]

\* no codec function under examination
NoValue == [kind |-> "none"]

\* ------------------------------------------------------------------ state
VARIABLES
    state,              \* ComfoControlTransport.state
    socket,             \* ComfoControlTransport.socket: "null", or the socket's
                        \* condition: "open", "closing" (destroySoon), "destroyed"
    keepAliveHandle,    \* ComfoControlTransport.keepAliveHandle: "null", "armed", "cleared"
    keepAliveInterval,  \* options.keepAliveInterval
    intervals,          \* the periods of the interval timers that are running
    messageId,          \* ComfoControlTransport.messageId
    sessionState,       \* ComfoControlClient.sessionState
    pendingReplies,     \* keys of ComfoControlClient.pendingReplies
    deviceProperties,   \* ComfoControlClient.deviceProperties
    microtasks,         \* calls suspended at `await this.ensureConnected(opcode)`
    connectWaiter,      \* the call suspended at `await this.transport.connect()`
    waiters,            \* id -> the call suspended at `timeout(pendingReplies[id]...)`
    userDrain,          \* TRUE while the queued continuations stem from user calls
    budget,             \* number of API calls the user still makes
    written,            \* requests handed to socket.write in the last step
    invoked,            \* property listeners invoked in the last step, in order
    handled,            \* opcode whose notification handler ran in the last step
    returned,           \* calls that settled in the last step, with their outcome
    emitted,            \* events the transport emitted in the last step, in order
    inbound,            \* the envelope dispatched in the last step
    logVerbose,         \* options.logLevel includes LogLevel.VERBOSE
    received,           \* the chunk the socket's data event carried in the last step
    codecIn,            \* the argument of the codec function under examination
    codecOut,           \* its result
    deferred,           \* a DeferredPromise under test
    discovery           \* a DiscoveryOperation and what surrounds it

vars == <<state, socket, keepAliveHandle, keepAliveInterval, intervals, messageId, sessionState, pendingReplies, deviceProperties,
          microtasks, connectWaiter, waiters, userDrain, budget,
          written, invoked, handled, returned, emitted, inbound,
          logVerbose, received, codecIn, codecOut, deferred, discovery>>

\* the variables of the client, its transport and the codecs
clientVars == <<state, socket, keepAliveHandle, keepAliveInterval, intervals, messageId, sessionState, pendingReplies,
                deviceProperties, microtasks, connectWaiter, waiters, userDrain, budget,
                written, invoked, handled, returned, emitted, inbound,
                logVerbose, received, codecIn, codecOut>>

\* A call in progress: the public method (kind), the opcode it is to send
\* (op), the opcode of the send() it currently executes (cur), whether a
\* startSession frame is on its stack (inSS), and the property / listener
\* of a subscription call.
Task(kind, op, prop, lis) ==
    [kind |-> kind, op |-> op, cur |-> op, inSS |-> FALSE, prop |-> prop, lis |-> lis]

NoTask == Task("none", NO_OPERATION, 0, "")

\* The mutable state an operation works on, as one record.
Cur ==
    [state |-> state, socket |-> socket, keepAliveHandle |-> keepAliveHandle,
     keepAliveInterval |-> keepAliveInterval, intervals |-> intervals,
     messageId |-> messageId,
     sessionState |-> sessionState, pendingReplies |-> pendingReplies,
     deviceProperties |-> deviceProperties, microtasks |-> microtasks,
     connectWaiter |-> connectWaiter, waiters |-> waiters,
     written |-> <<>>, invoked |-> <<>>, handled |-> "none", returned |-> {},
     emitted |-> <<>>, logVerbose |-> logVerbose, received |-> NoChunk]

Set(c) ==
    /\ state' = c.state
    /\ socket' = c.socket
    /\ keepAliveHandle' = c.keepAliveHandle
    /\ intervals' = c.intervals
    /\ messageId' = c.messageId
    /\ sessionState' = c.sessionState
    /\ pendingReplies' = c.pendingReplies
    /\ deviceProperties' = c.deviceProperties
    /\ microtasks' = c.microtasks
    /\ connectWaiter' = c.connectWaiter
    /\ waiters' = c.waiters
    /\ written' = c.written
    /\ invoked' = c.invoked
    /\ handled' = c.handled
    /\ returned' = c.returned
    /\ emitted' = c.emitted
    /\ received' = c.received
    /\ UNCHANGED <<keepAliveInterval, logVerbose, codecIn, codecOut, deferred, discovery>>

\* options.keepAliveInterval left out
Undefined == [given |-> FALSE, ms |-> 0]

\* the state after `new ComfoControlClient(options)`, whatever the options
FreshClient ==
    /\ state = "DISCONNECTED"
    /\ socket = "null"
    /\ keepAliveHandle = "null"
    /\ intervals = <<>>
    /\ messageId = 0
    /\ sessionState = "None"
    /\ pendingReplies = {}
    /\ deviceProperties = <<>>
    /\ microtasks = <<>>
    /\ connectWaiter = NoTask
    /\ waiters = <<>>
    /\ userDrain = FALSE
    /\ written = <<>>
    /\ invoked = <<>>
    /\ handled = "none"
    /\ returned = {}
    /\ emitted = <<>>
    /\ inbound = NoMsg
    /\ received = NoChunk

\* ... with the default options: LogLevel.DEFAULT leaves VERBOSE out
\* no DeferredPromise and no DiscoveryOperation besides
Fresh ==
    /\ FreshClient
    /\ keepAliveInterval = Undefined
    /\ deferred = NoValue
    /\ discovery = NoValue

Constructed ==
    /\ Fresh
    /\ logVerbose = FALSE
    /\ codecIn = NoValue
    /\ codecOut = NoValue

Init == Constructed /\ budget = MaxCalls

\* ------------------------------------------------------------- utilities
Without(f, k) == [x \in DOMAIN f \ {k} |-> f[x]]

RECURSIVE SortedSeq(_)
SortedSeq(S) ==
    IF S = {} THEN <<>>
    ELSE LET lo == CHOOSE x \in S : \A y \in S : x <= y
         IN <<lo>> \o SortedSeq(S \ {lo})

\* Array.prototype.indexOf with 1-based positions; 0 stands for -1
IndexOf(array, element) ==
    IF \E i \in 1..Len(array) : array[i] = element
    THEN CHOOSE i \in 1..Len(array) :
            array[i] = element /\ \A j \in 1..(i - 1) : array[j] # element
    ELSE 0

\* the first position of array that holds a member of S
IndexOfFirst(array, S) ==
    CHOOSE i \in 1..Len(array) :
        array[i] \in S /\ \A j \in 1..(i - 1) : array[j] \notin S

\* array.splice(index, 1)
Splice(array, index) ==
    SubSeq(array, 1, index - 1) \o SubSeq(array, index + 1, Len(array))

removeArrayElement(array, element) ==
    LET index == IndexOf(array, element)
    IN  IF index # 0 THEN Splice(array, index) ELSE array

\* ------------------------------------------------------ ComfoControlHeader
\* Buffers are sequences of bytes (0..255), strings are sequences of
\* characters.  Positions of the source are 0-based, sequences 1-based.
COMFO_MESSAGE_HEADER_LENGTH == 38

\* the digits Buffer.toString('hex') produces, by value
HexDigits ==
    <<"0", "1", "2", "3", "4", "5", "6", "7", "8", "9", "a", "b", "c", "d", "e", "f">>

\* the digits a hex decoder accepts besides
UpperHexDigits ==
    <<"0", "1", "2", "3", "4", "5", "6", "7", "8", "9", "A", "B", "C", "D", "E", "F">>

IsHex(ch) == \E i \in 1..16 : HexDigits[i] = ch \/ UpperHexDigits[i] = ch

HexValue(ch) == (CHOOSE i \in 1..16 : HexDigits[i] = ch \/ UpperHexDigits[i] = ch) - 1

Zeros(n) == [i \in 1..n |-> 0]

\* String.prototype.padStart(targetLength, '0')
RECURSIVE padStart(_, _)
padStart(s, targetLength) ==
    IF Len(s) >= targetLength THEN s ELSE padStart(<<"0">> \o s, targetLength)

\* The bytes buffer.write(string, offset, length, 'hex') stores: one per pair
\* of digits, at most `length`, up to the first pair that is not hex.
RECURSIVE hexWrite(_, _)
hexWrite(s, length) ==
    IF length = 0 \/ Len(s) < 2 THEN <<>>
    ELSE IF ~IsHex(s[1]) \/ ~IsHex(s[2]) THEN <<>>
    ELSE <<HexValue(s[1]) * 16 + HexValue(s[2])>> \o hexWrite(SubSeq(s, 3, Len(s)), length - 1)

\* a field of a buffer from Buffer.alloc: what write() leaves out stays 0
hexField(s, length) ==
    LET b == hexWrite(s, length) IN b \o Zeros(length - Len(b))

\* buffer.toString('hex', start, end)
toHex(bytes) ==
    [i \in 1..(2 * Len(bytes)) |->
        IF i % 2 = 1 THEN HexDigits[(bytes[(i + 1) \div 2] \div 16) + 1]
        ELSE HexDigits[(bytes[i \div 2] % 16) + 1]]

writeUInt32BE(value) ==
    <<(value \div 16777216) % 256, (value \div 65536) % 256, (value \div 256) % 256, value % 256>>

writeUInt16BE(value) == <<(value \div 256) % 256, value % 256>>

readUInt32BE(data, offset) ==
    data[offset + 1] * 16777216 + data[offset + 2] * 65536
        + data[offset + 3] * 256 + data[offset + 4]

readUInt16BE(data, offset) == data[offset + 1] * 256 + data[offset + 2]

\* new ComfoControlHeader(senderUuid, receiverUuid, opLength, messageLength)
ComfoControlHeader(senderUuid, receiverUuid, opLength, messageLength) ==
    [senderUuid |-> padStart(senderUuid, 32), receiverUuid |-> padStart(receiverUuid, 32),
     opLength |-> opLength, messageLength |-> messageLength]

NoHeader == ComfoControlHeader(<<>>, <<>>, 0, 0)

\* ComfoControlHeader.length, .opOffset, .messageOffset
headerLength(h) == COMFO_MESSAGE_HEADER_LENGTH + h.opLength + h.messageLength

opOffset == COMFO_MESSAGE_HEADER_LENGTH

messageOffset(h) == h.opLength + COMFO_MESSAGE_HEADER_LENGTH

\* variant: the length field counts its own four bytes
headerToBinaryFullLength(h) ==
    writeUInt32BE(headerLength(h))
        \o hexField(h.senderUuid, 16) \o hexField(h.receiverUuid, 16)
        \o writeUInt16BE(h.opLength)

\* ComfoControlHeader.toBinary(); writeUInt16BE throws on a value out of range
headerToBinary(h) ==
    writeUInt32BE(headerLength(h) - 4)
        \o hexField(h.senderUuid, 16) \o hexField(h.receiverUuid, 16)
        \o writeUInt16BE(h.opLength)

\* variant: the length field is taken as the length of the envelope
headerFromBinaryBareLength(data, offset) ==
    IF Len(data) - offset < COMFO_MESSAGE_HEADER_LENGTH
    THEN [error |-> "FrameTooShort", header |-> NoHeader]
    ELSE LET totalLength == readUInt32BE(data, offset)
             senderUuid == toHex(SubSeq(data, 4 + offset + 1, 20 + offset))
             receiverUuid == toHex(SubSeq(data, 20 + offset + 1, 36 + offset))
             opLength == readUInt16BE(data, 36 + offset)
             messageLength == totalLength - COMFO_MESSAGE_HEADER_LENGTH - opLength
         IN  [error |-> "none",
              header |-> ComfoControlHeader(senderUuid, receiverUuid, opLength, messageLength)]

\* ComfoControlHeader.fromBinary(data, offset)
headerFromBinary(data, offset) ==
    IF Len(data) - offset < COMFO_MESSAGE_HEADER_LENGTH
    THEN [error |-> "FrameTooShort", header |-> NoHeader]
    ELSE LET totalLength == readUInt32BE(data, offset) + 4
             senderUuid == toHex(SubSeq(data, 4 + offset + 1, 20 + offset))
             receiverUuid == toHex(SubSeq(data, 20 + offset + 1, 36 + offset))
             opLength == readUInt16BE(data, 36 + offset)
             messageLength == totalLength - COMFO_MESSAGE_HEADER_LENGTH - opLength
         IN  [error |-> "none",
              header |-> ComfoControlHeader(senderUuid, receiverUuid, opLength, messageLength)]

Min(a, b) == IF a <= b THEN a ELSE b

Max(a, b) == IF a >= b THEN a ELSE b

\* Buffer.subarray(start, end) for ends that are not negative: both are
\* clamped to the buffer, and an end before the start gives an empty buffer
subarray(data, start, end) ==
    LET s == Min(start, Len(data))
        e == Min(end, Len(data))
    IN  IF e <= s THEN <<>> ELSE SubSeq(data, s + 1, e)

\* ComfoControlHeader.getOperationBuffer(data, offset)
getOperationBuffer(h, data, offset) ==
    IF Len(data) - offset < opOffset + h.opLength
    THEN [error |-> "TruncatedOperation", buffer |-> <<>>]
    ELSE [error |-> "none",
          buffer |-> subarray(data, opOffset + offset, opOffset + h.opLength + offset)]

\* variant: the slice is taken without looking at the bytes that are left
getMessageBufferUnchecked(h, data, offset) ==
    [error |-> "none",
     buffer |-> subarray(data, messageOffset(h) + offset,
                         messageOffset(h) + h.messageLength + offset)]

\* ComfoControlHeader.getMessageBuffer(data, offset)
getMessageBuffer(h, data, offset) ==
    IF Len(data) - offset < messageOffset(h) + h.messageLength
    THEN [error |-> "TruncatedPayload", buffer |-> <<>>]
    ELSE [error |-> "none",
          buffer |-> subarray(data, messageOffset(h) + offset,
                              messageOffset(h) + h.messageLength + offset)]

\* One envelope read at an offset: the header, then its operation slice,
\* then its payload slice; the first step that throws ends the decoding.
decodeFrame(data, offset) ==
    LET hd == headerFromBinary(data, offset)
        op == getOperationBuffer(hd.header, data, offset)
        msg == getMessageBuffer(hd.header, data, offset)
        error == IF hd.error # "none" THEN hd.error
                 ELSE IF op.error # "none" THEN op.error
                 ELSE msg.error
    IN  [error |-> error, header |-> hd.header,
         operation |-> IF error = "none" THEN op.buffer ELSE <<>>,
         message |-> IF error = "none" THEN msg.buffer ELSE <<>>]

\* ------------------------------------------- operation and payload codec
\* The protobuf wire format of GatewayOperation { opcode = 1, result = 2,
\* description = 3, id = 4 } and of CnRpdoNotification { pdid = 1, data = 2 }:
\* a field is a tag (number * 8 + wire type) and a value; wire type 0 is a
\* varint, wire type 2 a length and that many bytes.
RECURSIVE writeVarint(_)
writeVarint(value) ==
    IF value < 128 THEN <<value>>
    ELSE <<(value % 128) + 128>> \o writeVarint(value \div 128)

RECURSIVE readVarint(_, _)
readVarint(data, pos) ==
    IF pos > Len(data) THEN [ok |-> FALSE, value |-> 0, next |-> pos]
    ELSE IF data[pos] < 128 THEN [ok |-> TRUE, value |-> data[pos], next |-> pos + 1]
    ELSE LET r == readVarint(data, pos + 1)
         IN  [ok |-> r.ok, value |-> (data[pos] - 128) + 128 * r.value, next |-> r.next]

\* the varint fields of a message, by field number (the last value wins);
\* length-delimited fields are skipped
RECURSIVE readFields(_, _, _)
readFields(data, pos, fields) ==
    IF pos > Len(data) THEN [ok |-> TRUE, fields |-> fields]
    ELSE LET tag == readVarint(data, pos)
             v == readVarint(data, tag.next)
         IN  IF ~tag.ok \/ ~v.ok THEN [ok |-> FALSE, fields |-> fields]
             ELSE IF tag.value % 8 = 0
             THEN readFields(data, v.next, ((tag.value \div 8) :> v.value) @@ fields)
             ELSE IF tag.value % 8 = 2 /\ v.next + v.value <= Len(data) + 1
             THEN readFields(data, v.next + v.value, fields)
             ELSE [ok |-> FALSE, fields |-> fields]

Field(fields, number) == IF number \in DOMAIN fields THEN fields[number] ELSE 0

OpcodeNumber(name) == IF name \in DOMAIN Opcode THEN Opcode[name] ELSE 99

OpcodeName(number) ==
    IF \E name \in DOMAIN Opcode : Opcode[name] = number
    THEN CHOOSE name \in DOMAIN Opcode : Opcode[name] = number
    ELSE UNKNOWN_OPCODE

ResultName(number) ==
    IF \E name \in DOMAIN Result : Result[name] = number
    THEN CHOOSE name \in DOMAIN Result : Result[name] = number
    ELSE "OTHER"

\* GatewayOperation.toBinary: fields with their default value are left out,
\* the optional result is written when it is present
operationToBinary(m) ==
    (IF OpcodeNumber(m.opcode) # 0 THEN <<8>> \o writeVarint(OpcodeNumber(m.opcode)) ELSE <<>>)
        \o (IF m.result # "absent" THEN <<16>> \o writeVarint(Result[m.result]) ELSE <<>>)
        \o (IF m.id # 0 THEN <<32>> \o writeVarint(m.id) ELSE <<>>)

\* the payload of a CN_RPDO_NOTIFICATION: the pdid and one byte of data
payloadToBinary(m) ==
    IF m.opcode = CN_RPDO_NOTIFICATION
    THEN (IF m.pdid # 0 THEN <<8>> \o writeVarint(m.pdid) ELSE <<>>) \o <<18, 1, 7>>
    ELSE <<>>

\* an envelope on the wire: header, operation, payload
envelopeToBinary(m) ==
    LET operation == operationToBinary(m)
        message == payloadToBinary(m)
    IN  headerToBinary(ComfoControlHeader(GATEWAY_UUID, CLIENT_UUID,
                                          Len(operation), Len(message)))
            \o operation \o message

\* new ComfoControlMessage(operation, message), with the pdid its payload
\* deserializes to
ComfoControlMessage(operation, message) ==
    LET opcode == OpcodeName(Field(operation, 1))
        payload == readFields(message, 1, <<>>)
    IN  [opcode |-> opcode, id |-> Field(operation, 4),
         result |-> IF 2 \in DOMAIN operation THEN ResultName(operation[2]) ELSE "absent",
         pdid |-> IF opcode = CN_RPDO_NOTIFICATION /\ payload.ok
                  THEN Field(payload.fields, 1) ELSE 0]

\* ComfoControlMessage.fromBinary(data), from an offset on
RECURSIVE messagesFromBinary(_, _)
messagesFromBinary(data, offset) ==
    IF offset >= Len(data) THEN [error |-> "none", messages |-> <<>>]
    ELSE LET hd == headerFromBinary(data, offset)
             op == getOperationBuffer(hd.header, data, offset)
             operation == readFields(op.buffer, 1, <<>>)
             msg == getMessageBuffer(hd.header, data, offset)
         IN  IF hd.error # "none" THEN [error |-> hd.error, messages |-> <<>>]
             ELSE IF op.error # "none" THEN [error |-> op.error, messages |-> <<>>]
             ELSE IF ~operation.ok THEN [error |-> "BadOperation", messages |-> <<>>]
             ELSE IF msg.error # "none" THEN [error |-> msg.error, messages |-> <<>>]
             ELSE LET rest == messagesFromBinary(data, offset + headerLength(hd.header))
                  IN  [error |-> rest.error,
                       messages |-> IF rest.error # "none" THEN <<>>
                                    ELSE <<ComfoControlMessage(operation.fields, msg.buffer)>>
                                         \o rest.messages]

\* the loop of ComfoControlMessage.fromBinary, one pass at a time: the test
\* `offset < data.length`, then the body, which throws or ends with
\* `offset += header.length`
NewLoop ==
    [kind |-> "loop", offset |-> 0, messages |-> 0, error |-> "none", done |-> FALSE,
     iterations |-> 0, negative |-> FALSE]

loopIteration(data, l) ==
    IF l.offset >= Len(data) THEN [l EXCEPT !.done = TRUE]
    ELSE LET hd == headerFromBinary(data, l.offset)
             op == getOperationBuffer(hd.header, data, l.offset)
             operation == readFields(op.buffer, 1, <<>>)
             msg == getMessageBuffer(hd.header, data, l.offset)
             error == IF hd.error # "none" THEN hd.error
                      ELSE IF op.error # "none" THEN op.error
                      ELSE IF ~operation.ok THEN "BadOperation"
                      ELSE msg.error
         IN  IF error # "none"
             THEN [l EXCEPT !.done = TRUE, !.error = error, !.messages = 0,
                            !.iterations = @ + 1]
             ELSE [l EXCEPT !.offset = @ + headerLength(hd.header),
                            !.messages = @ + 1,
                            !.iterations = @ + 1,
                            !.negative = @ \/ hd.header.messageLength < 0]

\* ComfoControlMessage.deserialize() throws: the opcode has no codec
deserializeThrows(m) == m.opcode \notin DOMAIN Opcode

\* ------------------------------------------------- property value codec
\* A number is kept as the four 16-bit limbs of its 64-bit two's complement
\* form, least significant first; the last limb carries the sign.
FromInt(n) ==
    <<n % 65536, (n \div 65536) % 65536,
      IF n < 0 THEN 65535 ELSE 0, IF n < 0 THEN -1 ELSE 0>>

\* ToInt32 of ECMAScript: what the operators & and >> see of a number
ToInt32(v) == (((v[2] + 32768) % 65536) - 32768) * 65536 + v[1]

\* data & 0xff
LowByte(v) == ToInt32(v) % 256

\* (data >> bits) & 0xff, for 8, 16 and 24 bits
ShiftedByte(v, bits) ==
    (ToInt32(v) \div (IF bits = 8 THEN 256 ELSE IF bits = 16 THEN 65536 ELSE 16777216)) % 256

\* Buffer.from([data]): the element is reduced modulo 256
ToUint8(v) == v[1] % 256

\* buf.writeBigInt64LE(data)
writeBigInt64LE(v) ==
    <<v[1] % 256, v[1] \div 256, v[2] % 256, v[2] \div 256,
      v[3] % 256, v[3] \div 256, v[4] % 256, (v[4] \div 256) % 256>>

readUInt8(data) == FromInt(data[1])

readInt8(data) == FromInt(IF data[1] >= 128 THEN data[1] - 256 ELSE data[1])

readUInt16LE(data) == FromInt(data[1] + 256 * data[2])

readInt16LE(data) ==
    FromInt(IF data[2] >= 128 THEN data[1] + 256 * data[2] - 65536 ELSE data[1] + 256 * data[2])

readUInt32LE(data) == <<data[1] + 256 * data[2], data[3] + 256 * data[4], 0, 0>>

readInt32LE(data) ==
    <<data[1] + 256 * data[2], data[3] + 256 * data[4],
      IF data[4] >= 128 THEN 65535 ELSE 0, IF data[4] >= 128 THEN -1 ELSE 0>>

readBigInt64LE(data) ==
    <<data[1] + 256 * data[2], data[3] + 256 * data[4], data[5] + 256 * data[6],
      IF data[8] >= 128 THEN data[7] + 256 * data[8] - 65536 ELSE data[7] + 256 * data[8]>>

\* variant: the bytes of a number most significant first
PropertyDataTypeSerializersBigEndian(type, value) ==
    CASE type = "CN_BOOL" -> <<IF value THEN 1 ELSE 0>>
      [] type \in {"CN_UINT8", "CN_INT8"} -> <<ToUint8(value)>>
      [] type \in {"CN_UINT16", "CN_INT16"} -> <<ShiftedByte(value, 8), LowByte(value)>>
      [] type \in {"CN_UINT32", "CN_INT32", "CN_TIME"} ->
            <<ShiftedByte(value, 24), ShiftedByte(value, 16), ShiftedByte(value, 8),
              LowByte(value)>>
      [] type = "CN_INT64" -> writeBigInt64LE(value)

\* PropertyDataTypeSerializers[type](value)
PropertyDataTypeSerializers(type, value) ==
    CASE type = "CN_BOOL" -> <<IF value THEN 1 ELSE 0>>
      [] type \in {"CN_UINT8", "CN_INT8"} -> <<ToUint8(value)>>
      [] type \in {"CN_UINT16", "CN_INT16"} -> <<LowByte(value), ShiftedByte(value, 8)>>
      [] type \in {"CN_UINT32", "CN_INT32", "CN_TIME"} ->
            <<LowByte(value), ShiftedByte(value, 8), ShiftedByte(value, 16),
              ShiftedByte(value, 24)>>
      [] type = "CN_INT64" -> writeBigInt64LE(value)

\* PropertyDataTypeParsers[type](data)
PropertyDataTypeParsers(type, data) ==
    CASE type = "CN_BOOL" -> (data[1] = 1)
      [] type = "CN_UINT8" -> readUInt8(data)
      [] type = "CN_UINT16" -> readUInt16LE(data)
      [] type \in {"CN_UINT32", "CN_TIME"} -> readUInt32LE(data)
      [] type = "CN_INT8" -> readInt8(data)
      [] type = "CN_INT16" -> readInt16LE(data)
      [] type = "CN_INT32" -> readInt32LE(data)
      [] type = "CN_INT64" -> readBigInt64LE(data)

serializePropertyValue(type, value) == PropertyDataTypeSerializers(type, value)

deserializePropertyValue(type, data) == PropertyDataTypeParsers(type, data)

\* --------------------------------------------------- how a call settles
\* result: what the caller's promise settles with; error: the failure that
\* ended the call ("none" on success), also when the call swallows it.
Return(c, t, result, error, id, m) ==
    [c EXCEPT !.returned = @ \cup
        {[task |-> t, result |-> result, error |-> error, id |-> id, msg |-> m]}]

Enqueue(c, t) == [c EXCEPT !.microtasks = Append(@, t)]

\* variant: a catch block that leaves the session state as it is
startSessionCatchKeepsState(c, t) == c

\* variant: a catch block that also covers the re-issued subscription requests
startSessionCatchCoversReRegister(c, t) ==
    IF t.inSS \/ t.kind = "requestPropertyUpdates"
    THEN [c EXCEPT !.sessionState = "None"] ELSE c

\* startSession: catch (err) { this.sessionState = SessionState.None; throw err; }
startSessionCatch(c, t) ==
    IF t.inSS THEN [c EXCEPT !.sessionState = "None"] ELSE c

\* variant: a catch block that leaves the listener in the list
registerPropertyListenerCatchKeepsListener(c, t) == c

\* registerPropertyListener: catch (err) { removeArrayElement(...); throw err; }
registerPropertyListenerCatch(c, t) ==
    [c EXCEPT !.deviceProperties[t.prop].listners = removeArrayElement(@, t.lis)]

\* variant: sendKeepAlive without the .catch()
sendKeepAliveNoCatch(c, t, error, id) ==
    Return(c, t, "uncaught", error, id, NoMsg)

\* sendKeepAlive: this.send(Opcode.KEEP_ALIVE, {}).catch((err) => logger.error(...));
\* .catch() sees a rejected promise, not the synchronous throw of send()
sendKeepAliveCatch(c, t, error, id) ==
    Return(c, t, IF error = "Disconnected" THEN "uncaught" ELSE "logged", error, id, NoMsg)

\* A rejection raised in the send() the call currently executes, propagated
\* through the frames above it.
Reject(c, t, error, id) ==
    LET c1 == startSessionCatch(c, t)
    IN  CASE t.kind = "stopSession" ->
                Return(c1, t, "ok", error, id, NoMsg)
          [] t.kind = "registerPropertyListener" ->
                Return(registerPropertyListenerCatch(c1, t), t, error, error, id, NoMsg)
          [] t.kind = "requestPropertyUpdates" ->
                Return(c1, t, "logged", error, id, NoMsg)
          [] t.kind = "sendKeepAlive" -> sendKeepAliveCatch(c1, t, error, id)
          [] OTHER ->
                Return(c1, t, error, error, id, NoMsg)

\* ------------------------------------------------ ComfoControlClient
getDevicePropertyInfo(c, p) ==
    IF p \in DOMAIN c.deviceProperties THEN c
    ELSE [c EXCEPT !.deviceProperties =
            (p :> [listners |-> <<>>, registered |-> FALSE]) @@ @]

RECURSIVE ensureConnected(_, _)
RECURSIVE startSession(_, _)

\* ensureConnected, second half: "Ensure the session is active"
ensureSessionActive(c, t) ==
    IF c.sessionState # "Active" /\ t.cur \notin SESSION_EXEMPT_OPCODES
    THEN startSession(c, t)
    ELSE Enqueue(c, t)

\* variant: a call that finds the transport connecting waits for a connect
\* of its own
ensureConnectedUnguarded(c, t) ==
    IF c.state # "CONNECTED"
    THEN [c EXCEPT !.state = "CONNECTING", !.connectWaiter = t]
    ELSE ensureSessionActive(c, t)

\* ensureConnected, as far as it runs without suspending
ensureConnected(c, t) ==
    IF c.state # "CONNECTED"
    THEN IF c.state = "CONNECTING"
         THEN Reject(c, t, "AlreadyConnecting", 0)
         ELSE [c EXCEPT !.state = "CONNECTING", !.connectWaiter = t]
    ELSE ensureSessionActive(c, t)

\* send(), up to `await this.ensureConnected(opcode)`
send(c, t) == ensureConnected(c, t)

\* variant: a handshake starts whatever the session state
startSessionUnguarded(c, t) ==
    send([c EXCEPT !.sessionState = "Registering"],
         [t EXCEPT !.inSS = TRUE, !.cur = REGISTER_DEVICE_REQUEST])

\* startSession(), up to the await of the register request
startSession(c, t) ==
    IF c.sessionState # "None"
    THEN Reject(c, t, "AlreadyActive", 0)
    ELSE send([c EXCEPT !.sessionState = "Registering"],
              [t EXCEPT !.inSS = TRUE, !.cur = REGISTER_DEVICE_REQUEST])

requestPropertyUpdates(c, t) == send(c, t)

\* the loop over the registered subscriptions at the end of startSession
RECURSIVE reRegister(_, _)
reRegister(c, infos) ==
    IF infos = <<>> THEN c
    ELSE reRegister(
            requestPropertyUpdates(c,
                Task("requestPropertyUpdates", CN_RPDO_REQUEST, Head(infos), "")),
            Tail(infos))

\* variant: every subscription, whatever its registered flag
registeredPropertiesUnfiltered(c) == SortedSeq(DOMAIN c.deviceProperties)

registeredProperties(c) ==
    SortedSeq({p \in DOMAIN c.deviceProperties : c.deviceProperties[p].registered})

\* variant: a handshake that does not look at the result code
startSessionResumeAnyResult(c, t, id, m) ==
    IF t.cur = REGISTER_DEVICE_REQUEST
    THEN send(c, [t EXCEPT !.cur = START_SESSION_REQUEST])
    ELSE LET c1 == [c EXCEPT !.sessionState = "Active"]
             c2 == reRegister(c1, registeredProperties(c1))
         IN  IF t.kind = "startSession"
             THEN Return(c2, t, "ok", "none", id, m)
             ELSE Enqueue(c2, [t EXCEPT !.inSS = FALSE, !.cur = t.op])

\* startSession(), resumed with the confirm of its register or start request
startSessionResume(c, t, id, m) ==
    IF resultCode(m) # "OK"
    THEN Reject(c, t, "NotOK", id)
    ELSE IF t.cur = REGISTER_DEVICE_REQUEST
    THEN send(c, [t EXCEPT !.cur = START_SESSION_REQUEST])
    ELSE LET c1 == [c EXCEPT !.sessionState = "Active"]
             c2 == reRegister(c1, registeredProperties(c1))
         IN  IF t.kind = "startSession"
             THEN Return(c2, t, "ok", "none", id, m)
             ELSE Enqueue(c2, [t EXCEPT !.inSS = FALSE, !.cur = t.op])

\* what the caller of send() does once send() has returned
sendReturned(c, t, id, m) ==
    IF t.inSS
    THEN startSessionResume(c, t, id, m)
    ELSE IF t.kind \in {"registerPropertyListener", "requestPropertyUpdates"}
    THEN Return([getDevicePropertyInfo(c, t.prop) EXCEPT
                    !.deviceProperties[t.prop].registered = TRUE],
                t, "ok", "none", id, m)
    ELSE IF t.kind = "writeProperty" /\ m.rmi # "NO_ERROR"
    THEN Reject(c, t, "FailedToWrite", id)
    ELSE Return(c, t, "ok", "none", id, m)

\* variant: a callback that accepts any opcode
onResponseUnchecked(c, t, response) == sendReturned(c, t, response.id, response)

\* the .then() callback of send(): the opcode check
onResponse(c, t, response) ==
    IF response.opcode # requestMessages[t.cur]
    THEN Reject(c, t, "UnexpectedOpcode", response.id)
    ELSE sendReturned(c, t, response.id, response)

\* send(), resumed with the id transport.send resolved with
sendWritten(c, t, requestId) ==
    IF requestMessages[t.cur] = NO_OPERATION
    THEN sendReturned(c, t, requestId, NoMsg)
    ELSE [c EXCEPT !.pendingReplies = @ \cup {requestId},
                   !.waiters = (requestId :> t) @@ @]

\* ------------------------------------------------ ComfoControlTransport
\* variant: the counter is advanced before the connection check
transportSendCountsFirst(c, t, writeOk) ==
    LET refId == c.messageId + 1
        c1 == [c EXCEPT !.messageId = refId]
    IN  IF c.state # "CONNECTED" \/ c.socket = "null"
        THEN Reject(c1, t, "Disconnected", 0)
        ELSE LET c2 == [c1 EXCEPT !.written =
                            Append(@, [opcode |-> t.cur, id |-> refId, task |-> t])]
             IN  IF ~writeOk THEN Reject(c2, t, "WriteError", refId)
                 ELSE IF t.kind \in {"transport.send", "sendKeepAlive"}
                 THEN Return(c2, t, "ok", "none", refId, NoMsg)
                 ELSE sendWritten(c2, t, refId)

\* transport.send; writeOk is the outcome socket.write reports
transportSend(c, t, writeOk) ==
    IF c.state # "CONNECTED" \/ c.socket = "null"
    THEN Reject(c, t, "Disconnected", 0)
    ELSE LET refId == c.messageId + 1
             c1 == [c EXCEPT !.messageId = refId,
                             !.written = Append(@, [opcode |-> t.cur, id |-> refId, task |-> t])]
         IN  IF ~writeOk THEN Reject(c1, t, "WriteError", refId)
             ELSE IF t.kind \in {"transport.send", "sendKeepAlive"}
             THEN Return(c1, t, "ok", "none", refId, NoMsg)
             ELSE sendWritten(c1, t, refId)

\* variant: connect() without the state check
transportConnectUnguarded(c, t) ==
    [c EXCEPT !.state = "CONNECTING", !.connectWaiter = t]

\* transport.connect(), up to the promise it returns
transportConnect(c, t) ==
    IF c.state # "DISCONNECTED"
    THEN Reject(c, t, "AlreadyConnecting", 0)
    ELSE [c EXCEPT !.state = "CONNECTING", !.connectWaiter = t]

\* transport.disconnect(): this.socket?.destroySoon()
disconnect(c) ==
    [c EXCEPT !.socket = IF @ = "open" THEN "closing" ELSE @]

\* onSocketTimeout: this.socket?.destroy()
onSocketTimeout(c) ==
    [c EXCEPT !.socket = IF @ = "null" THEN "null" ELSE "destroyed"]

Emit(c, event, m) == [c EXCEPT !.emitted = Append(@, [event |-> event, msg |-> m])]

\* variant: a listener that also clears the registered flags
onDisconnectClearsRegistered(c) ==
    [c EXCEPT !.sessionState = "None",
              !.deviceProperties =
                  [p \in DOMAIN @ |-> [@[p] EXCEPT !.registered = FALSE]]]

\* variant: a listener that leaves the session state alone
onDisconnectKeepsSession(c) == c

\* the client's listener on the transport's disconnect event
onDisconnect(c) == [c EXCEPT !.sessionState = "None"]

\* variant: the interval is the configured one, however short
keepAliveNoFloor(c) ==
    IF c.keepAliveInterval.given THEN c.keepAliveInterval.ms ELSE 30000

\* constructor: this.keepAlive = Math.max(options.keepAliveInterval ?? 30000, 5000)
keepAlive(c) ==
    Max(IF c.keepAliveInterval.given THEN c.keepAliveInterval.ms ELSE 30000, 5000)

\* this.keepAliveHandle = setInterval(this.sendKeepAlive.bind(this), this.keepAlive):
\* one more timer runs, and the field holds the handle of the newest one
setInterval(c, ms) ==
    [c EXCEPT !.keepAliveHandle = "armed", !.intervals = Append(@, ms)]

\* if (this.keepAliveHandle) clearInterval(this.keepAliveHandle): stops the
\* timer of the handle if it runs; the field keeps the handle
clearInterval(c) ==
    IF c.keepAliveHandle = "null" THEN c
    ELSE [c EXCEPT !.keepAliveHandle = "cleared",
                   !.intervals = IF c.keepAliveHandle = "armed"
                                 THEN SubSeq(@, 1, Len(@) - 1) ELSE @]

\* variant: the counter starts again with every connection
onSocketCloseResetsId(c) ==
    onDisconnect(Emit([clearInterval(c) EXCEPT !.state = "DISCONNECTED", !.socket = "null",
                                               !.messageId = 0],
                      "disconnect", NoMsg))

\* variant: the keep-alive interval survives the close
onSocketCloseKeepsTimer(c) ==
    onDisconnect(Emit([c EXCEPT !.state = "DISCONNECTED", !.socket = "null"],
                      "disconnect", NoMsg))

onSocketClose(c) ==
    onDisconnect(Emit([clearInterval(c) EXCEPT !.state = "DISCONNECTED", !.socket = "null"],
                      "disconnect", NoMsg))

onConnectSuccess(c) ==
    LET c0 == IF keepAlive(c) > 0 THEN setInterval(c, keepAlive(c)) ELSE c
        c1 == Emit([c0 EXCEPT !.state = "CONNECTED",
                              !.socket = "open", !.connectWaiter = NoTask],
                   "connect", NoMsg)
    IN  IF c.connectWaiter.kind = "transport.connect"
        THEN Return(c1, c.connectWaiter, "ok", "none", 0, NoMsg)
        ELSE ensureSessionActive(c1, c.connectWaiter)

\* variant: a failed connect is announced like a closed connection
onConnectErrorEmitsDisconnect(c) ==
    Reject(Emit([c EXCEPT !.state = "DISCONNECTED", !.socket = "null",
                          !.connectWaiter = NoTask],
                "disconnect", NoMsg),
           c.connectWaiter, "ConnectError", 0)

onConnectError(c) ==
    Reject([c EXCEPT !.state = "DISCONNECTED", !.socket = "null", !.connectWaiter = NoTask],
           c.connectWaiter, "ConnectError", 0)

\* ------------------------------------------------ inbound dispatch
onSessionClosed(c) == disconnect([c EXCEPT !.sessionState = "None"])

\* for (const listener of info.listners) listener(...): the loop ends with
\* the first listener that throws
CalledListeners(listners) ==
    IF \E i \in 1..Len(listners) : listners[i] \in Throwers
    THEN SubSeq(listners, 1, IndexOfFirst(listners, Throwers))
    ELSE listners

\* the payload of an envelope: "malformed" bytes make message.deserialize()
\* throw, a value "short" of the width of its type makes
\* deserializePropertyValue throw; envelopes without the field decode
payloadOf(m) == IF "payload" \in DOMAIN m THEN m.payload ELSE "valid"

onPropertyUpdateNotification(c, m) ==
    IF payloadOf(m) = "malformed" THEN c
    ELSE IF m.pdid \notin DOMAIN c.deviceProperties THEN c
    ELSE IF payloadOf(m) = "short" THEN c
    ELSE [c EXCEPT !.invoked = @ \o CalledListeners(c.deviceProperties[m.pdid].listners)]

runHandler(c, m) ==
    CASE m.opcode = CLOSE_SESSION_REQUEST -> onSessionClosed(c)
      [] m.opcode = CN_RPDO_NOTIFICATION -> onPropertyUpdateNotification(c, m)
      [] OTHER -> c

\* the handler of the envelope ends with an exception: of deserialize(), of
\* deserializePropertyValue, or of a listener
handlerThrows(c, m) ==
    CASE m.opcode = CN_NODE_NOTIFICATION -> payloadOf(m) = "malformed"
      [] m.opcode = CN_RPDO_NOTIFICATION ->
            \/ payloadOf(m) = "malformed"
            \/ /\ m.pdid \in DOMAIN c.deviceProperties
               /\ \/ payloadOf(m) = "short"
                  \/ \E i \in 1..Len(c.deviceProperties[m.pdid].listners) :
                        c.deviceProperties[m.pdid].listners[i] \in Throwers
      [] OTHER -> FALSE

\* variant: no catch around the handler
handlerCatchMissing(c, m) ==
    Return(c, Task("processMessage", m.opcode, 0, ""), "unhandled", "HandlerThrew", m.id, m)

\* processMessage: catch (err) { this.logger.error('Error processing message:', err); }
handlerCatch(c, m) ==
    Return(c, Task("processMessage", m.opcode, 0, ""), "logged", "HandlerThrew", m.id, m)

\* processMessage: try { await this.handlers[message.opcode]!(message); } catch ...
callHandler(c, m) ==
    LET c1 == runHandler([c EXCEPT !.handled = m.opcode], m)
    IN  IF handlerThrows(c, m) THEN handlerCatch(c1, m) ELSE c1

\* responsePromise.resolve(message), with the callbacks it schedules:
\* finally() deletes the entry, then() hands the envelope to the caller
\* unless the request timeout has already settled the race
resolveReply(c, m) ==
    LET c1 == [c EXCEPT !.pendingReplies = @ \ {m.id}]
    IN  IF m.id \in DOMAIN c.waiters
        THEN onResponse([c1 EXCEPT !.waiters = Without(@, m.id)], c.waiters[m.id], m)
        ELSE c1

\* variant: the notification handler runs whether or not the id is pending
processMessageAlwaysHandles(c, m) ==
    LET c1 == IF m.opcode \in handlers
              THEN callHandler(c, m)
              ELSE c
    IN  IF m.id \in c.pendingReplies THEN resolveReply(c1, m) ELSE c1

processMessage(c, m) ==
    IF m.id \in c.pendingReplies
    THEN resolveReply(c, m)
    ELSE IF m.opcode \in handlers
    THEN callHandler(c, m)
    ELSE c

\* messages.forEach(...) of onSocketData, up to the first await of each
\* processMessage call: the verbose log line (its argument deserializes the
\* payload when a printer formats it), the message event, and in the
\* client's listener either resolve() of the pending reply or the handler.
\* An exception of the log argument leaves the forEach.  `resolved` collects
\* the envelopes that settled a pending reply, the first one per id; the
\* entry is deleted by a finally() callback, which has not run yet when the
\* next envelope of the chunk is handled, so resolve() is called again for a
\* second envelope of that id, and throws inside the async processMessage.
resolveAgain(c, m) ==
    Return(c, Task("processMessage", m.opcode, 0, ""), "unhandled", "AlreadySettled", m.id, m)

RECURSIVE forEachMessage(_, _, _)
forEachMessage(c, messages, resolved) ==
    IF messages = <<>> THEN [c |-> c, resolved |-> resolved]
    ELSE LET m == Head(messages)
             pending == m.id \in c.pendingReplies
             c1 == Emit(c, "message", m)
             first == pending /\ ~\E i \in 1..Len(resolved) : resolved[i].id = m.id
             c2 == IF pending THEN (IF first THEN c1 ELSE resolveAgain(c1, m))
                   ELSE IF m.opcode \in handlers
                   THEN callHandler(c1, m)
                   ELSE c1
         IN  IF c.logVerbose /\ deserializeThrows(m)
             THEN [c |-> c, resolved |-> resolved]
             ELSE forEachMessage(c2, Tail(messages),
                                 IF first THEN Append(resolved, m) ELSE resolved)

\* the continuations of the replies that were resolved, in order
RECURSIVE settleReplies(_, _)
settleReplies(c, resolved) ==
    IF resolved = <<>> THEN c
    ELSE settleReplies(resolveReply(c, Head(resolved)), Tail(resolved))

\* variant: no try/catch around the parsing
onSocketDataUncaught(c, data) ==
    LET parsed == messagesFromBinary(data, 0)
        done == forEachMessage(c, parsed.messages, <<>>)
    IN  IF parsed.error # "none"
        THEN Return(c, Task("onSocketData", "", 0, ""), "uncaught", parsed.error, 0, NoMsg)
        ELSE settleReplies(done.c, done.resolved)

\* ComfoControlTransport.onSocketData: nothing is emitted unless the whole
\* chunk parses; any exception is logged
onSocketData(c, data) ==
    LET parsed == messagesFromBinary(data, 0)
        done == forEachMessage(c, parsed.messages, <<>>)
    IN  IF parsed.error # "none" THEN c
        ELSE settleReplies(done.c, done.resolved)

\* the timer of timeout() fires: the race rejects; the DeferredPromise in
\* pendingReplies is not settled, so its finally() callback does not run
onRequestTimeout(c, id) ==
    Reject([c EXCEPT !.waiters = Without(@, id)], c.waiters[id], "Timeout", id)

\* ---------------------------------------------------------------- actions
CanCall ==
    /\ budget > 0
    /\ Len(microtasks) < MaxQueue
    /\ microtasks = <<>> \/ userDrain

AfterCall(c) ==
    /\ Set(c)
    /\ userDrain' = (c.microtasks # <<>>)
    /\ budget' = budget - 1
    /\ inbound' = NoMsg

AfterEvent(c, m) ==
    /\ Set(c)
    /\ userDrain' = FALSE
    /\ budget' = budget
    /\ inbound' = m

CallStartSession ==
    /\ CanCall
    /\ AfterCall(startSession(Cur, Task("startSession", NO_OPERATION, 0, "")))

CallStopSession ==
    /\ CanCall
    /\ LET t == Task("stopSession", CLOSE_SESSION_REQUEST, 0, "")
       IN  IF sessionState = "None"
           THEN AfterCall(Return(Cur, t, "ok", "none", 0, NoMsg))
           ELSE AfterCall(send([Cur EXCEPT !.sessionState = "None"], t))

CallSend ==
    /\ CanCall
    /\ \E opcode \in SendOpcodes : AfterCall(send(Cur, Task("send", opcode, 0, "")))

\* registerPropertyListener(), up to the await of the update request
registerPropertyListener(c, p, l) ==
    LET c1 == getDevicePropertyInfo(c, p)
        c2 == [c1 EXCEPT !.deviceProperties[p].listners = Append(@, l)]
    IN  requestPropertyUpdates(c2, Task("registerPropertyListener", CN_RPDO_REQUEST, p, l))

CallRegisterPropertyListener ==
    /\ CanCall
    /\ \E p \in Props, l \in Listeners :
        AfterCall(registerPropertyListener(Cur, p, l))

\* the same call with a listener that throws when it is invoked
CallRegisterThrowingListener ==
    /\ CanCall
    /\ \E p \in Props, l \in Throwers :
        AfterCall(registerPropertyListener(Cur, p, l))

\* what socket.write may report: a socket that destroySoon() has ended or
\* destroy() has destroyed refuses the write, an open one may still fail
WriteOutcomes == IF socket \in {"closing", "destroyed"} THEN {FALSE} ELSE BOOLEAN

\* the continuation at the head of the microtask queue: transport.send
RunMicrotask ==
    /\ microtasks # <<>>
    /\ \E writeOk \in WriteOutcomes :
        LET c == transportSend([Cur EXCEPT !.microtasks = Tail(@)], Head(microtasks), writeOk)
        IN  /\ Set(c)
            /\ userDrain' = (userDrain /\ c.microtasks # <<>>)
            /\ budget' = budget
            /\ inbound' = NoMsg

ConnectSuccess ==
    /\ microtasks = <<>>
    /\ state = "CONNECTING"
    /\ AfterEvent(onConnectSuccess(Cur), NoMsg)

ConnectError ==
    /\ microtasks = <<>>
    /\ state = "CONNECTING"
    /\ AfterEvent(onConnectError(Cur), NoMsg)

SocketClose ==
    /\ microtasks = <<>>
    /\ socket # "null"
    /\ AfterEvent(onSocketClose(Cur), NoMsg)

\* What the gateway may send under the id of an entry of pendingReplies: the
\* confirm the request waits for, with either result, and three opcodes the
\* request does not wait for (one confirm, two with a notification handler).
\* The client treats every opcode other than the expected one alike.
Expected(i) ==
    IF i \in DOMAIN waiters THEN {requestMessages[waiters[i].cur]} ELSE {}

Replies ==
    {[opcode |-> o, id |-> i, result |-> r, pdid |-> 0] :
        i \in pendingReplies, o \in ConfirmOpcodes, r \in {"OK", "NOT_ALLOWED"}}

Notifications(ids) ==
    {[opcode |-> CLOSE_SESSION_REQUEST, id |-> i, result |-> "absent", pdid |-> 0] : i \in ids}
    \cup {[opcode |-> CN_RPDO_NOTIFICATION, id |-> i, result |-> "absent", pdid |-> p] :
            i \in ids, p \in Props}

\* Under an id that matches no entry (0 stands for all of them): the same
\* notifications, one whose handler is empty, and a confirm nobody waits for.
Envelopes ==
    {m \in Replies : m.opcode \in Expected(m.id)
                     \/ (m.opcode = CLOSE_SESSION_CONFIRM /\ m.result = "OK")}
    \cup Notifications(pendingReplies \cup {0})
    \cup {[opcode |-> GATEWAY_NOTIFICATION, id |-> 0, result |-> "absent", pdid |-> 0],
          [opcode |-> CLOSE_SESSION_CONFIRM, id |-> 0, result |-> "OK", pdid |-> 0]}

Deliver ==
    /\ microtasks = <<>>
    /\ socket \in {"open", "closing"}
    /\ \E m \in Envelopes : AfterEvent(processMessage(Emit(Cur, "message", m), m), m)

RequestTimeout ==
    /\ microtasks = <<>>
    /\ \E id \in DOMAIN waiters : AfterEvent(onRequestTimeout(Cur, id), NoMsg)

\* ---------------------------------------- the transport, used directly
CallTransportConnect ==
    /\ CanCall
    /\ AfterCall(transportConnect(Cur, Task("transport.connect", NO_OPERATION, 0, "")))

CallTransportSend ==
    /\ CanCall
    /\ \E writeOk \in WriteOutcomes :
        AfterCall(transportSend(Cur, Task("transport.send", CN_TIME_REQUEST, 0, ""), writeOk))

CallTransportDisconnect ==
    /\ CanCall
    /\ AfterCall(disconnect(Cur))

\* the interval armed in connect() fires: sendKeepAlive()
KeepAliveTimer ==
    /\ microtasks = <<>>
    /\ intervals # <<>>
    /\ messageId < MaxMessageId
    /\ \E writeOk \in WriteOutcomes :
        AfterEvent(transportSend(Cur, Task("sendKeepAlive", KEEP_ALIVE, 0, ""), writeOk), NoMsg)

\* the socket's timeout event
SocketTimeout ==
    /\ microtasks = <<>>
    /\ socket \in {"open", "closing"}
    /\ AfterEvent(onSocketTimeout(Cur), NoMsg)

\* socket events, timers and continuations
Events ==
    \/ RunMicrotask
    \/ ConnectSuccess
    \/ ConnectError
    \/ SocketClose
    \/ Deliver
    \/ RequestTimeout

\* a user of the session API
Next ==
    \/ CallStartSession
    \/ CallStopSession
    \/ CallSend
    \/ Events

Spec == Init /\ [][Next]_vars

\* the same user, with one more call
InitRace == Constructed /\ budget = MaxRaceCalls

SpecRace == InitRace /\ [][Next]_vars

\* a user of the subscription API
InitSub == Constructed /\ budget = MaxSubCalls

NextSub ==
    \/ CallRegisterPropertyListener
    \/ CallStartSession
    \/ Events

SpecSub == InitSub /\ [][NextSub]_vars

\* a user whose listeners may throw
InitListen == Constructed /\ budget = MaxListenCalls

\* notifications whose payload does not decode
BadNotifications ==
    {[opcode |-> o, id |-> 0, result |-> "absent", pdid |-> p, payload |-> b] :
        o \in {CN_RPDO_NOTIFICATION, CN_NODE_NOTIFICATION}, p \in Props,
        b \in {"malformed", "short"}}

DeliverBadNotification ==
    /\ microtasks = <<>>
    /\ socket \in {"open", "closing"}
    /\ \E m \in BadNotifications : AfterEvent(processMessage(Emit(Cur, "message", m), m), m)

NextListen ==
    \/ CallRegisterPropertyListener
    \/ CallRegisterThrowingListener
    \/ DeliverBadNotification
    \/ Events

SpecListen == InitListen /\ [][NextListen]_vars

\* the transport with its timers, driven directly and through send()
\* options.keepAliveInterval: left out, zero, below the floor, above it
KeepAliveIntervals ==
    {Undefined} \cup {[given |-> TRUE, ms |-> ms] : ms \in {0, 1000, 60000}}

\* new ComfoControlTransport(options), with one of these intervals
InitTransport ==
    /\ FreshClient
    /\ keepAliveInterval \in KeepAliveIntervals
    /\ deferred = NoValue
    /\ discovery = NoValue
    /\ logVerbose = FALSE
    /\ codecIn = NoValue
    /\ codecOut = NoValue
    /\ budget = MaxTransportCalls

NextTransport ==
    \/ CallTransportConnect
    \/ CallTransportSend
    \/ CallTransportDisconnect
    \/ CallSend
    \/ KeepAliveTimer
    \/ SocketTimeout
    \/ Events

\* the close event of a socket that destroy() or destroySoon() has ended
SocketClosed == socket \in {"closing", "destroyed"} /\ SocketClose

\* the run loop does run queued continuations, and a socket that has been
\* ended does report its close
SpecTransportFair ==
    /\ InitTransport
    /\ [][NextTransport]_vars
    /\ WF_vars(RunMicrotask)
    /\ WF_vars(SocketClosed)

SpecTransport == InitTransport /\ [][NextTransport]_vars

\* --------------------------------------- the header codec, on its own
\* sample uuids: the one of the tests, the default one, lowercase, uppercase
\* and mixed digits, the empty string, a string that is not hex, and one of
\* 33 digits
Uuids ==
    {<<"1">>, CLIENT_UUID, <<"a", "b", "c", "d">>, <<"A", "F", "0", "1">>,
     <<"B", "e", "e">>, <<>>, <<"s", "e", "n", "d", "e", "r">>,
     <<"1", "0", "0", "0", "0", "0", "0", "0", "0", "0", "0", "0", "0", "0", "0", "0", "0", "0", "0", "0", "0", "0", "0", "0", "0", "0", "0", "0", "0", "0", "0", "0", "0">>}

\* sample lengths around the byte boundaries of the two fields
OpLengths == {0, 4, 255, 256, 65535, 65536}

MessageLengths == {0, 8, 65536, 16777219}

HeaderInputs ==
    [kind : {"header"}, senderUuid : Uuids, receiverUuid : Uuids,
     opLength : OpLengths, messageLength : MessageLengths]

\* header.toBinary() followed by ComfoControlHeader.fromBinary(binary);
\* writeUInt16BE throws a RangeError for a value above 65535
HeaderRoundTrip ==
    /\ codecIn.kind = "header"
    /\ codecOut.kind = "none"
    /\ LET h == ComfoControlHeader(codecIn.senderUuid, codecIn.receiverUuid,
                                   codecIn.opLength, codecIn.messageLength)
       IN  codecOut' =
             IF h.opLength > 65535
             THEN [kind |-> "header", error |-> "RangeError", binary |-> <<>>, parsed |-> NoHeader]
             ELSE LET binary == headerToBinary(h)
                      parsed == headerFromBinary(binary, 0)
                  IN  [kind |-> "header", error |-> parsed.error, binary |-> binary,
                       parsed |-> parsed.header]
    /\ UNCHANGED <<state, socket, keepAliveHandle, keepAliveInterval, intervals, messageId,
                   sessionState, pendingReplies,
                   deviceProperties, microtasks, connectWaiter, waiters, userDrain, budget,
                   written, invoked, handled, returned, emitted, inbound,
                   logVerbose, received, codecIn, deferred, discovery>>

InitHeader ==
    /\ Fresh
    /\ logVerbose = FALSE
    /\ budget = 0
    /\ codecIn \in HeaderInputs
    /\ codecOut = NoValue

NextHeader == HeaderRoundTrip

SpecHeader == InitHeader /\ [][NextHeader]_vars

\* --------------------------------------- decoding one frame, on its own
\* the bytes of a frame whose length fields hold the given values, whatever
\* the bytes that follow the header
rawFrame(lengthField, opLengthField, body) ==
    writeUInt32BE(lengthField)
        \o hexField(padStart(GATEWAY_UUID, 32), 16) \o hexField(CLIENT_UUID, 16)
        \o writeUInt16BE(opLengthField) \o body

\* an operation of four bytes (the one of the header tests) and a payload
\* of three
SampleBody == <<8, 2, 32, 2, 8, 1, 18>>

\* frames whose fields agree with the seven bytes that follow, and frames
\* whose fields announce more or fewer bytes than there are
FrameBuffers ==
    {rawFrame(34 + 4 + 3, 4, SampleBody),
     rawFrame(34 + 4 + 3, 4, SampleBody) \o rawFrame(34 + 4 + 3, 4, SampleBody),
     rawFrame(34 + 4 + 0, 4, SubSeq(SampleBody, 1, 4)),
     rawFrame(34 + 0 + 0, 0, <<>>),
     rawFrame(34 + 4 + 3, 9, SampleBody),
     rawFrame(34 + 4 + 6, 4, SampleBody),
     rawFrame(34 + 2, 4, SampleBody),
     rawFrame(0, 4, SampleBody),
     rawFrame(34 + 300 + 3, 300, SampleBody)}

\* offsets: the start, inside the first frame, the start of a second frame
Offsets == {0, 3, 45, 60}

\* every prefix of every sample buffer, read at every sample offset
FrameInputs ==
    UNION {{[kind |-> "frame", data |-> SubSeq(d, 1, n), offset |-> o] :
              n \in 0..Len(d), o \in Offsets} : d \in FrameBuffers}

\* header = ComfoControlHeader.fromBinary(data, offset);
\* header.getOperationBuffer(data, offset); header.getMessageBuffer(data, offset)
DecodeFrame ==
    /\ codecIn.kind = "frame"
    /\ codecOut.kind = "none"
    /\ LET f == decodeFrame(codecIn.data, codecIn.offset)
       IN  codecOut' = [kind |-> "frame", error |-> f.error, header |-> f.header,
                        operation |-> f.operation, message |-> f.message]
    /\ UNCHANGED <<state, socket, keepAliveHandle, keepAliveInterval, intervals, messageId,
                   sessionState, pendingReplies,
                   deviceProperties, microtasks, connectWaiter, waiters, userDrain, budget,
                   written, invoked, handled, returned, emitted, inbound,
                   logVerbose, received, codecIn, deferred, discovery>>

InitFrame ==
    /\ Fresh
    /\ logVerbose = FALSE
    /\ budget = 0
    /\ codecIn \in FrameInputs
    /\ codecOut = NoValue

NextFrame == DecodeFrame

SpecFrame == InitFrame /\ [][NextFrame]_vars

\* ------------------------------------- the loop of fromBinary, pass by pass
\* buffers whose headers announce no bytes at all, fewer bytes than the
\* header and the operation take (one of them two bytes less than the
\* header, so that the next envelope begins in its opLength field), or the
\* bytes that are there
LoopBuffers ==
    {[i \in 1..50 |-> 0],
     rawFrame(0, 4, SampleBody),
     rawFrame(34 + 2, 4, SampleBody) \o rawFrame(34 + 4 + 3, 4, SampleBody),
     SubSeq(rawFrame(32, 0, <<>>), 1, 36) \o rawFrame(34 + 4 + 3, 4, SampleBody),
     rawFrame(34 + 4 + 3, 4, SampleBody) \o rawFrame(34 + 4 + 3, 4, SampleBody),
     rawFrame(34 + 4 + 3, 4, SampleBody) \o rawFrame(34 + 4 + 0, 4, SampleBody)}

LoopInputs ==
    UNION {{[kind |-> "loop", data |-> SubSeq(d, 1, n)] : n \in 0..Len(d)} : d \in LoopBuffers}

\* one pass of the loop
LoopIteration ==
    /\ codecIn.kind = "loop"
    /\ LET l == IF codecOut.kind = "loop" THEN codecOut ELSE NewLoop
       IN  /\ ~l.done
           /\ l.iterations < MaxIterations
           /\ codecOut' = loopIteration(codecIn.data, l)
    /\ UNCHANGED <<state, socket, keepAliveHandle, keepAliveInterval, intervals, messageId,
                   sessionState, pendingReplies,
                   deviceProperties, microtasks, connectWaiter, waiters, userDrain, budget,
                   written, invoked, handled, returned, emitted, inbound,
                   logVerbose, received, codecIn, deferred, discovery>>

InitLoop ==
    /\ Fresh
    /\ logVerbose = FALSE
    /\ budget = 0
    /\ codecIn \in LoopInputs
    /\ codecOut = NoValue

NextLoop == LoopIteration

SpecLoop == InitLoop /\ [][NextLoop]_vars

\* the loop runs on: nothing else is scheduled between two passes
SpecLoopFair ==
    /\ InitLoop
    /\ [][NextLoop]_vars
    /\ WF_vars(LoopIteration)

\* -------------------------------------------- chunks of several envelopes
\* what the gateway sends in a chunk: confirms under a pending id,
\* notifications under id 0, and an envelope whose opcode the library does
\* not know
ChunkEnvelopes ==
    {m \in Envelopes : m.pdid <= 1 /\ (m.opcode \in ConfirmOpcodes \/ m.id = 0)}
    \cup {[opcode |-> UNKNOWN_OPCODE, id |-> 0, result |-> "absent", pdid |-> 0]}

Chunks == UNION {[1..n -> ChunkEnvelopes] : n \in 0..MaxChunk}

\* bytes missing at the end of a chunk: the last byte of the last
\* envelope, or so many that less than a header is left of it
Cuts == {1, 12}

\* the chunks that arrive cut short: a reply or a property notification,
\* alone or behind another one
TruncatedChunks ==
    {chunk \in Chunks :
        /\ chunk # <<>>
        /\ \A i \in 1..Len(chunk) :
              chunk[i].opcode \in {REGISTER_DEVICE_CONFIRM, CN_RPDO_NOTIFICATION}}

RECURSIVE concat(_)
concat(buffers) == IF buffers = <<>> THEN <<>> ELSE Head(buffers) \o concat(Tail(buffers))

\* the socket's data event with the concatenated envelopes of a chunk
DeliverChunk ==
    /\ microtasks = <<>>
    /\ socket \in {"open", "closing"}
    /\ \E chunk \in Chunks :
        LET data == concat([i \in 1..Len(chunk) |-> envelopeToBinary(chunk[i])])
            c == onSocketData(Cur, data)
        IN  AfterEvent([c EXCEPT !.received =
               [event |-> TRUE, envelopes |-> chunk, data |-> data, cut |-> 0]], NoMsg)

\* the socket's data event with a chunk that ends inside its last envelope
DeliverTruncatedChunk ==
    /\ microtasks = <<>>
    /\ socket \in {"open", "closing"}
    /\ \E chunk \in TruncatedChunks, cut \in Cuts :
        LET whole == concat([i \in 1..Len(chunk) |-> envelopeToBinary(chunk[i])])
            data == SubSeq(whole, 1, Len(whole) - cut)
            c == onSocketData(Cur, data)
        IN  AfterEvent([c EXCEPT !.received =
               [event |-> TRUE, envelopes |-> chunk, data |-> data, cut |-> cut]], NoMsg)

\* a client whose logger may hand VERBOSE lines to a printer that formats
\* the arguments
InitChunk ==
    /\ Fresh
    /\ logVerbose \in BOOLEAN
    /\ codecIn = NoValue
    /\ codecOut = NoValue
    /\ budget = MaxChunkCalls

NextChunk ==
    \/ CallSend
    \/ DeliverChunk
    \/ DeliverTruncatedChunk
    \/ Events

SpecChunk == InitChunk /\ [][NextChunk]_vars

\* ------------------------------------- the property value codec, on its own
FixedWidthTypes ==
    {"CN_BOOL", "CN_UINT8", "CN_INT8", "CN_UINT16", "CN_INT16", "CN_UINT32", "CN_INT32",
     "CN_INT64", "CN_TIME"}

\* sample values of a type: the ends of its range, the values around its
\* byte and sign boundaries, and the values of the tests
UInt32Samples ==
    {FromInt(0), FromInt(1), FromInt(255), FromInt(256), FromInt(65535), FromInt(65536),
     FromInt(305419896), FromInt(2147483647), <<0, 32768, 0, 0>>, <<22136, 37035, 0, 0>>,
     <<65535, 65535, 0, 0>>}

Samples(type) ==
    CASE type = "CN_BOOL" -> {TRUE, FALSE}
      [] type = "CN_UINT8" -> {FromInt(n) : n \in {0, 1, 127, 128, 254, 255}}
      [] type = "CN_INT8" -> {FromInt(n) : n \in {-128, -127, -2, -1, 0, 1, 126, 127}}
      [] type = "CN_UINT16" ->
            {FromInt(n) : n \in {0, 1, 255, 256, 4660, 32767, 32768, 65535}}
      [] type = "CN_INT16" ->
            {FromInt(n) : n \in {-32768, -32767, -257, -256, -1, 0, 255, 256, 4660, 32767}}
      [] type \in {"CN_UINT32", "CN_TIME"} -> UInt32Samples
      [] type = "CN_INT32" ->
            {FromInt(n) : n \in {-2147483647, -65537, -65536, -256, -1, 0, 1, 65536,
                                 305419896, 2147483647}}
            \cup {<<0, 32768, 65535, -1>>}
      [] type = "CN_INT64" ->
            {FromInt(n) : n \in {-2147483647, -1, 0, 1, 2147483647}}
            \cup {<<0, 0, 0, -32768>>, <<65535, 65535, 65535, 32767>>, <<0, 0, 1, 0>>,
                  <<0, 32768, 0, 0>>, <<52719, 35243, 17767, 291>>,
                  <<65535, 65535, 65534, -1>>}

\* deserializePropertyValue(type, serializePropertyValue(type, value))
PropertyValueRoundTrip ==
    /\ codecIn.kind = "value"
    /\ codecOut.kind = "none"
    /\ LET data == serializePropertyValue(codecIn.type, codecIn.value)
       IN  codecOut' = [kind |-> "value", data |-> data,
                        value |-> deserializePropertyValue(codecIn.type, data)]
    /\ UNCHANGED <<state, socket, keepAliveHandle, keepAliveInterval, intervals, messageId,
                   sessionState, pendingReplies,
                   deviceProperties, microtasks, connectWaiter, waiters, userDrain, budget,
                   written, invoked, handled, returned, emitted, inbound,
                   logVerbose, received, codecIn, deferred, discovery>>

InitValue ==
    /\ Fresh
    /\ logVerbose = FALSE
    /\ budget = 0
    /\ \E type \in FixedWidthTypes : \E value \in Samples(type) :
          codecIn = [kind |-> "value", type |-> type, value |-> value]
    /\ codecOut = NoValue

NextValue == PropertyValueRoundTrip

SpecValue == InitValue /\ [][NextValue]_vars


\* ---------------------------------------------------- writeProperty
MaxWriteCalls == 2

\* NodeProperty.access: 'ro' | 'rw' | undefined
Access == {"ro", "rw", "absent"}

\* result codes a CN_RMI_RESPONSE carries
RmiResults == {"NO_ERROR", "UNKNOWN_PROPERTY"}

WriteTask(access) ==
    [access |-> access] @@ Task("writeProperty", CN_RMI_REQUEST, 0, "")

\* variant: no look at prop.access
writePropertyUnchecked(c, access) == send(c, WriteTask(access))

\* writeProperty(prop, value), up to the await of send
writeProperty(c, access) ==
    IF access = "ro"
    THEN Reject(c, WriteTask(access), "ReadOnly", 0)
    ELSE send(c, WriteTask(access))

CallWriteProperty ==
    /\ CanCall
    /\ \E access \in Access : AfterCall(writeProperty(Cur, access))

\* a CN_RMI_RESPONSE under the id of a request that waits for one
RmiResponses ==
    {[opcode |-> CN_RMI_RESPONSE, id |-> i, result |-> "OK", pdid |-> 0, rmi |-> r] :
        i \in {j \in pendingReplies : CN_RMI_RESPONSE \in Expected(j)}, r \in RmiResults}

DeliverRmiResponse ==
    /\ microtasks = <<>>
    /\ socket \in {"open", "closing"}
    /\ \E m \in RmiResponses : AfterEvent(processMessage(Emit(Cur, "message", m), m), m)

InitWrite == Constructed /\ budget = MaxWriteCalls

NextWrite ==
    \/ CallWriteProperty
    \/ CallStartSession
    \/ DeliverRmiResponse
    \/ Events

SpecWrite == InitWrite /\ [][NextWrite]_vars


\* ---------------------------------------------------- DeferredPromise
MaxDeferredCalls == 4

Results == {1, 2}
Errors == {"e1", "e2"}

PendingPromise == [state |-> "pending", value |-> 0]

\* the resolve / reject functions a Promise executor receives: they act on
\* a pending promise only
settle(promise, how, value) ==
    IF promise.state = "pending" THEN [state |-> how, value |-> value] ELSE promise

\* reset(): a new inner promise; the one before stays as it is
reset(d) ==
    [d EXCEPT !.earlier = Append(@, d.innerPromise),
              !.innerPromise = PendingPromise,
              !.isResolved = FALSE]

\* new DeferredPromise()
NewDeferredPromise ==
    [kind |-> "deferred", isResolved |-> FALSE, innerPromise |-> PendingPromise,
     earlier |-> <<>>, thrown |-> FALSE, last |-> "new", calls |-> 0]

\* variant: resolve without the look at #isResolved
resolveUnguarded(d, result) ==
    [d EXCEPT !.isResolved = TRUE,
              !.innerPromise = settle(@, "resolved", result)]

resolve(d, result) ==
    IF d.isResolved
    THEN [d EXCEPT !.thrown = TRUE]
    ELSE [d EXCEPT !.isResolved = TRUE,
                   !.innerPromise = settle(@, "resolved", result)]

reject(d, err) ==
    IF d.isResolved
    THEN [d EXCEPT !.thrown = TRUE]
    ELSE [d EXCEPT !.isResolved = TRUE,
                   !.innerPromise = settle(@, "rejected", err)]

\* the caller of the next method: nothing thrown yet
Calling(op) ==
    [deferred EXCEPT !.thrown = FALSE, !.last = op, !.calls = @ + 1]

CanCallDeferred ==
    /\ deferred.kind = "deferred"
    /\ deferred.calls < MaxDeferredCalls

DeferredResolve ==
    /\ CanCallDeferred
    /\ \E result \in Results : deferred' = resolve(Calling("resolve"), result)
    /\ UNCHANGED <<clientVars, discovery>>

DeferredReject ==
    /\ CanCallDeferred
    /\ \E err \in Errors : deferred' = reject(Calling("reject"), err)
    /\ UNCHANGED <<clientVars, discovery>>

DeferredReset ==
    /\ CanCallDeferred
    /\ deferred' = reset(Calling("reset"))
    /\ UNCHANGED <<clientVars, discovery>>

InitDeferred ==
    /\ FreshClient
    /\ keepAliveInterval = Undefined
    /\ logVerbose = FALSE
    /\ budget = 0
    /\ codecIn = NoValue
    /\ codecOut = NoValue
    /\ discovery = NoValue
    /\ deferred = NewDeferredPromise

NextDeferred ==
    \/ DeferredResolve
    \/ DeferredReject
    \/ DeferredReset

SpecDeferred == InitDeferred /\ [][NextDeferred]_vars


\* ---------------------------------------------------- DiscoveryOperation
MaxDatagrams == 3
MaxDiscoverCalls == 2

\* options.limit: 0 stands for no limit
Limits == {0, 1, 2}
DeviceUuids == {"u1", "u2", "u3"}
Addresses == {"10.0.0.1", "10.0.0.2"}

\* this.broadcastAddresses.length: one address per network interface
NumBroadcastAddresses == 2

\* the datagrams a socket can receive: a discovery response, or bytes that
\* GatewayDiscovery.fromBinary rejects or that hold no response
Datagrams ==
    {[malformed |-> FALSE, uuid |-> u, address |-> a] : u \in DeviceUuids, a \in Addresses}
    \cup {[malformed |-> TRUE, uuid |-> "", address |-> ""]}

NoDatagram == [malformed |-> FALSE, uuid |-> "", address |-> ""]

\* new DiscoveryOperation(addresses), with what its user brings: a limit,
\* an AbortSignal or none (possibly aborted already), an 'error' listener or
\* none
NewDiscoveryOperation(limit, hasSignal, aborted, errorListener) ==
    [kind |-> "discovery", limit |-> limit, hasSignal |-> hasSignal,
     aborted |-> aborted, errorListener |-> errorListener,
     calls |-> 0, abortListener |-> FALSE,
     discoveryPromise |-> "undefined", promise |-> NewDeferredPromise,
     socket |-> "unbound", closeCalls |-> 0,
     timeoutHandle |-> "unset", broadcastHandle |-> "unset",
     discoveredDevices |-> <<>>, discovered |-> <<>>,
     sends |-> 0, datagrams |-> 0,
     last |-> "new", input |-> NoDatagram, trace |-> <<>>, uncaught |-> "none",
     observed |-> NoValue]

\* an exception leaves the handler that runs
Throw(x, error) == [x EXCEPT !.uncaught = error]

Ok(x) == x.uncaught = "none"

Did(x, what) == [x EXCEPT !.trace = Append(@, what)]

\* EventEmitter.emit: an 'error' event without a listener is thrown
emit(x, event) ==
    IF event = "error" /\ ~x.errorListener
    THEN Throw(x, "UnhandledError")
    ELSE Did(x, event)

\* dgram Socket.close(): throws ERR_SOCKET_DGRAM_NOT_RUNNING on a closed socket
socketClose(x) ==
    LET x1 == [x EXCEPT !.closeCalls = @ + 1]
    IN  IF x.socket = "closed"
        THEN Throw(x1, "NotRunning")
        ELSE Did([x1 EXCEPT !.socket = "closed"], "close")

\* variant: a cleanup that closes the socket of a run in progress only
cleanupOnce(x) ==
    LET x1 == [x EXCEPT !.timeoutHandle = IF @ = "unset" THEN @ ELSE "cleared",
                        !.broadcastHandle = IF @ = "unset" THEN @ ELSE "cleared",
                        !.discoveryPromise = "undefined"]
    IN  IF x.socket = "closed" THEN Did(x1, "cleanup") ELSE socketClose(Did(x1, "cleanup"))

cleanup(x) ==
    socketClose(Did([x EXCEPT !.timeoutHandle = IF @ = "unset" THEN @ ELSE "cleared",
                              !.broadcastHandle = IF @ = "unset" THEN @ ELSE "cleared",
                              !.discoveryPromise = "undefined"],
                    "cleanup"))

\* this.discoveryPromise?.resolve(...) / ?.reject(...)
settlePromise(x, how, value) ==
    IF x.discoveryPromise = "undefined" THEN x
    ELSE LET d0 == [x.promise EXCEPT !.thrown = FALSE]
             d == IF how = "resolve" THEN resolve(d0, value) ELSE reject(d0, value)
         IN  IF d.thrown
             THEN Throw([x EXCEPT !.promise = d], "AlreadySettled")
             ELSE Did([x EXCEPT !.promise = d], how)

onError(x, error) ==
    LET x1 == emit(x, "error")
        x2 == settlePromise(x1, "reject", error)
    IN  IF ~Ok(x1) THEN x1 ELSE IF ~Ok(x2) THEN x2 ELSE cleanup(x2)

onAbort(x) ==
    LET x1 == emit(x, "abort")
        x2 == settlePromise(x1, "reject", "Aborted")
    IN  IF ~Ok(x2) THEN x2 ELSE cleanup(x2)

stop(x) ==
    LET x1 == settlePromise(x, "resolve", x.discoveredDevices)
        x2 == emit(x1, "completed")
    IN  IF ~Ok(x1) THEN x1 ELSE cleanup(x2)

\* variant: devices are told apart by their address
knownByAddress(x, device) ==
    \E i \in 1..Len(x.discoveredDevices) : x.discoveredDevices[i].address = device.address

\* this.discoveredDevices.some((b) => b.uuid === device.uuid)
known(x, device) ==
    \E i \in 1..Len(x.discoveredDevices) : x.discoveredDevices[i].uuid = device.uuid

\* variant: the limit is not looked at
limitReachedNever(x) == FALSE

\* options.limit && this.discoveredDevices.length >= options.limit
limitReached(x) == x.limit # 0 /\ Len(x.discoveredDevices) >= x.limit

\* the 'message' listener of the socket; parseDiscoveryResponse calls onError
\* from its catch block and returns undefined
onMessage(x, datagram) ==
    IF x.hasSignal /\ x.aborted THEN onAbort(x)
    ELSE IF datagram.malformed THEN onError(x, "ParseError")
    ELSE LET device == [uuid |-> datagram.uuid, address |-> datagram.address]
         IN  IF known(x, device) THEN x
             ELSE LET x1 == emit([x EXCEPT !.discoveredDevices = Append(@, device),
                                           !.discovered = Append(@, device.uuid)],
                                 "discover")
                  IN  IF limitReached(x1) THEN stop(x1) ELSE x1

\* discover(options, abortSignal), and the socket.bind it ends with
discover(x) ==
    IF x.discoveryPromise # "undefined"
    THEN Throw(x, "AlreadyInProgress")
    ELSE [x EXCEPT !.discoveryPromise = "set",
                   !.promise = NewDeferredPromise,
                   !.abortListener = x.hasSignal,
                   !.socket = "binding"]

\* the callback of socket.bind
onBound(x) ==
    IF x.hasSignal /\ x.aborted THEN onAbort([x EXCEPT !.socket = "bound"])
    ELSE [x EXCEPT !.socket = "bound",
                   !.broadcastHandle = "armed",
                   !.timeoutHandle = "armed"]

\* the handler that runs next: nothing emitted, nothing thrown yet
Handling(name) ==
    [discovery EXCEPT !.last = name, !.input = NoDatagram, !.trace = <<>>, !.uncaught = "none",
                      !.observed = NoValue]

InRun == discovery.kind = "discovery"

Discover ==
    /\ InRun
    /\ discovery.calls < MaxDiscoverCalls
    /\ discovery.calls = 0 \/ discovery.discoveryPromise = "set"
    /\ discovery' = discover([Handling("discover") EXCEPT !.calls = @ + 1])
    /\ UNCHANGED <<clientVars, deferred>>

BindDone ==
    /\ InRun
    /\ discovery.socket = "binding"
    /\ discovery' = onBound(Handling("bind"))
    /\ UNCHANGED <<clientVars, deferred>>

\* the bind fails: the socket raises 'error' and stays unbound
BindError ==
    /\ InRun
    /\ discovery.socket = "binding"
    /\ discovery' = onError([Handling("bindError") EXCEPT !.socket = "unbound"], "SocketError")
    /\ UNCHANGED <<clientVars, deferred>>

SocketError ==
    /\ InRun
    /\ discovery.socket = "bound"
    /\ discovery' = onError(Handling("socketError"), "SocketError")
    /\ UNCHANGED <<clientVars, deferred>>

Datagram ==
    /\ InRun
    /\ discovery.socket = "bound"
    /\ discovery.datagrams < MaxDatagrams
    /\ \E datagram \in Datagrams :
        discovery' = onMessage([Handling("message") EXCEPT !.datagrams = @ + 1,
                                                            !.input = datagram],
                               datagram)
    /\ UNCHANGED <<clientVars, deferred>>

TimeoutFires ==
    /\ InRun
    /\ discovery.timeoutHandle = "armed"
    /\ discovery' = stop([Handling("timeout") EXCEPT !.timeoutHandle = "fired"])
    /\ UNCHANGED <<clientVars, deferred>>

\* sendDiscoveryMessages: one socket.send per broadcast address
BroadcastTick ==
    /\ InRun
    /\ discovery.broadcastHandle = "armed"
    /\ discovery.sends = 0
    /\ discovery' = [Handling("broadcast") EXCEPT !.sends = NumBroadcastAddresses]
    /\ UNCHANGED <<clientVars, deferred>>

\* the callback of one socket.send: (err) => err && this.onError(err)
SendCallback ==
    /\ InRun
    /\ discovery.sends > 0
    /\ \E err \in BOOLEAN :
        LET x == [Handling("sent") EXCEPT !.sends = @ - 1]
        IN  discovery' = IF err THEN onError(x, "SendError") ELSE x
    /\ UNCHANGED <<clientVars, deferred>>

\* the AbortSignal aborts: its listeners run, whenever that is
Abort ==
    /\ InRun
    /\ discovery.hasSignal
    /\ ~discovery.aborted
    /\ LET x == [Handling("abort") EXCEPT !.aborted = TRUE]
       IN  discovery' = IF x.abortListener THEN onAbort(x) ELSE x
    /\ UNCHANGED <<clientVars, deferred>>

\* then / catch / finally: the promise the callbacks are attached to, which
\* is a rejected one when this.discoveryPromise is undefined
then(x) ==
    IF x.discoveryPromise = "undefined"
    THEN [x EXCEPT !.observed = [state |-> "rejected", value |-> "NoDiscoveryInProgress"]]
    ELSE [x EXCEPT !.observed = x.promise.innerPromise]

\* the user awaits the operation some time after discover()
Then ==
    /\ InRun
    /\ discovery.calls > 0
    /\ discovery.last # "then"
    /\ discovery' = then(Handling("then"))
    /\ UNCHANGED <<clientVars, deferred>>

InitDiscovery ==
    /\ FreshClient
    /\ keepAliveInterval = Undefined
    /\ logVerbose = FALSE
    /\ budget = 0
    /\ codecIn = NoValue
    /\ codecOut = NoValue
    /\ deferred = NoValue
    /\ \E limit \in Limits, hasSignal \in BOOLEAN, aborted \in BOOLEAN, errorListener \in BOOLEAN :
        /\ aborted => hasSignal
        /\ discovery = NewDiscoveryOperation(limit, hasSignal, aborted, errorListener)

NextDiscovery ==
    \/ Discover
    \/ BindDone
    \/ BindError
    \/ SocketError
    \/ Datagram
    \/ TimeoutFires
    \/ BroadcastTick
    \/ SendCallback
    \/ Abort
    \/ Then

SpecDiscovery == InitDiscovery /\ [][NextDiscovery]_vars

\* the event loop runs the bind callback of a bind that succeeds and the
\* callback of a timer that is due
SpecDiscoveryFair ==
    /\ InitDiscovery
    /\ [][NextDiscovery]_vars
    /\ WF_vars(BindDone)
    /\ WF_vars(TimeoutFires)

\* ------------------------------------------------------------ properties
\* the calls in progress, wherever they are suspended
InFlight ==
    microtasks
    \o (IF connectWaiter = NoTask THEN <<>> ELSE <<connectWaiter>>)
    \o [k \in 1..Cardinality(DOMAIN waiters) |-> waiters[SortedSeq(DOMAIN waiters)[k]]]

Count(seq, P(_)) == Cardinality({k \in 1..Len(seq) : P(seq[k])})

InHandshake(t) == t.inSS
InStartPhase(t) == t.inSS /\ t.cur = START_SESSION_REQUEST

Propagates(t) == t.kind \in {"startSession", "send", "registerPropertyListener"}

\* C1: an envelope that carries the id of a request send() waits on settles
\* that request.  With the expected confirm opcode the request resolves with
\* that very envelope (a user's send() returns it); with any other opcode it
\* is rejected with the unexpected-response-opcode error.  Either way the
\* entry of that id leaves pendingReplies.
C1_ResponseSettlesRequest ==
    [][\A i \in DOMAIN waiters :
        (inbound' # NoMsg /\ inbound'.id = i) =>
            LET t == waiters[i]
            IN  /\ i \notin pendingReplies'
                /\ i \notin DOMAIN waiters'
                /\ IF inbound'.opcode = requestMessages[t.cur]
                   THEN /\ \A r \in returned' : r.error # "UnexpectedOpcode"
                        /\ ~t.inSS =>
                            returned' = {[task |-> t, result |-> "ok", error |-> "none",
                                          id |-> i, msg |-> inbound']}
                   ELSE \E r \in returned' :
                            /\ r.task = t /\ r.id = i /\ r.error = "UnexpectedOpcode"
                            /\ Propagates(t) => r.result = "UnexpectedOpcode"]_vars

C1_Witness ==
    /\ inbound.opcode = CN_TIME_CONFIRM
    /\ inbound.id # 0
    /\ inbound.id \notin pendingReplies
    /\ \E r \in returned :
        r.task.kind = "send" /\ r.result = "ok" /\ r.msg = inbound /\ r.id = inbound.id

\* C2: a request whose timeout fired has left pendingReplies.
C2_TimeoutRemovesEntry ==
    \A r \in returned : r.error = "Timeout" => r.id \notin pendingReplies

\* C4: a startSession handshake enters its session-start phase only in the
\* step that dispatches a REGISTER_DEVICE_CONFIRM with result OK under the id
\* of its register request, and the session state becomes Active only in the
\* step that dispatches a START_SESSION_CONFIRM with result OK under the id of
\* a handshake's session-start request.
Confirmed(request, confirm) ==
    /\ inbound'.opcode = confirm
    /\ resultCode(inbound') = "OK"
    /\ inbound'.id \in DOMAIN waiters
    /\ waiters[inbound'.id].inSS
    /\ waiters[inbound'.id].cur = request

C4_HandshakeOrder ==
    [][/\ Count(InFlight', InStartPhase) > Count(InFlight, InStartPhase)
            => Confirmed(REGISTER_DEVICE_REQUEST, REGISTER_DEVICE_CONFIRM)
       /\ \A k \in 1..Len(written') :
            (written'[k].task.inSS /\ written'[k].opcode = START_SESSION_REQUEST)
                => microtasks # <<>> /\ InStartPhase(Head(microtasks))
       /\ (sessionState' = "Active" /\ sessionState # "Active")
            => Confirmed(START_SESSION_REQUEST, START_SESSION_CONFIRM)]_vars

C4_Witness ==
    /\ sessionState = "Active"
    /\ inbound.opcode = START_SESSION_CONFIRM
    /\ \E r \in returned : r.task.kind = "startSession" /\ r.result = "ok"

\* C5: when a step of a startSession handshake fails, the session state is
\* None afterwards and the error reaches the caller; and the state is
\* Registering only while a handshake is in progress.
C5_FailedHandshakeResets ==
    /\ \A r \in returned :
        (r.task.inSS /\ r.error # "none") =>
            /\ sessionState = "None"
            /\ r.error \in {"AlreadyConnecting", "ConnectError", "WriteError",
                            "Timeout", "UnexpectedOpcode", "NotOK"}
            /\ Propagates(r.task) => r.result = r.error
    /\ sessionState = "Registering" => Count(InFlight, InHandshake) > 0

C5_Witness ==
    \E r \in returned :
        /\ r.task.kind = "startSession"
        /\ r.task.cur = START_SESSION_REQUEST
        /\ r.result = "NotOK"
        /\ sessionState = "None"

\* C6: at most one startSession handshake is in progress at any time.
C6_OneHandshake == Count(InFlight, InHandshake) <= 1

\* C7: a request with an opcode that is not session-exempt is written only
\* while the session state is Active.
C7_WrittenWhileActive ==
    \A k \in 1..Len(written) :
        written[k].opcode \notin SESSION_EXEMPT_OPCODES => sessionState = "Active"

\* C3: an envelope whose id matches an entry of pendingReplies only settles
\* that entry: no notification handler runs and no listener is invoked,
\* whatever the opcode.  An envelope whose id matches no entry goes to the
\* handler of its opcode, when there is one.
C3_PendingIdOnlySettles ==
    [][inbound' # NoMsg =>
        IF inbound'.id \in pendingReplies
        THEN /\ handled' = "none"
             /\ invoked' = <<>>
             /\ socket' = socket
             /\ inbound'.id \notin pendingReplies'
        ELSE handled' = (IF inbound'.opcode \in handlers THEN inbound'.opcode ELSE "none")]_vars

C3_Witness ==
    /\ inbound.opcode = CN_RPDO_NOTIFICATION
    /\ inbound.id # 0
    /\ inbound.pdid \in DOMAIN deviceProperties
    /\ deviceProperties[inbound.pdid].listners # <<>>
    /\ handled = "none"
    /\ invoked = <<>>
    /\ \E r \in returned : r.id = inbound.id /\ r.error = "UnexpectedOpcode"

\* the subscription table, read for any property id
Listners(dp, p) == IF p \in DOMAIN dp THEN dp[p].listners ELSE <<>>
IsRegistered(dp, p) == p \in DOMAIN dp /\ dp[p].registered

\* the re-issued update requests for property p among the given calls
ReRequests(seq, p) ==
    Count(seq, LAMBDA t : t.kind = "requestPropertyUpdates" /\ t.prop = p)

\* this step completes a handshake
SessionStarted == Confirmed(START_SESSION_REQUEST, START_SESSION_CONFIRM)

\* C8: the step that completes a handshake issues one update request for
\* every subscription whose registered flag is set and none for the others,
\* and no other step issues one; each of them writes one CN_RPDO_REQUEST for
\* its property; none of these steps changes a listener list; and a
\* CN_RPDO_NOTIFICATION that reaches its handler invokes the listeners of
\* its property, each once, in order (the listeners of SpecSub return
\* normally).
C8_ResubscribeOnce ==
    [][/\ \A p \in Props :
            IF SessionStarted
            THEN ReRequests(microtasks', p) =
                    (IF IsRegistered(deviceProperties, p) THEN 1 ELSE 0)
            ELSE ReRequests(microtasks', p) <= ReRequests(microtasks, p)
       /\ (microtasks # <<>> /\ Head(microtasks).kind = "requestPropertyUpdates"
                /\ Len(microtasks') < Len(microtasks))
            => written' = <<[opcode |-> CN_RPDO_REQUEST, id |-> messageId + 1,
                             task |-> Head(microtasks)]>>
       /\ (\/ SessionStarted
           \/ \E r \in returned' : r.task.kind = "requestPropertyUpdates"
           \/ \E k \in 1..Len(written') : written'[k].task.kind = "requestPropertyUpdates")
            => \A p \in Props :
                    Listners(deviceProperties', p) = Listners(deviceProperties, p)
       /\ handled' = CN_RPDO_NOTIFICATION
            => invoked' = Listners(deviceProperties, inbound'.pdid)]_vars

C8_Witness ==
    /\ inbound.opcode = START_SESSION_CONFIRM
    /\ sessionState = "Active"
    /\ pendingReplies = {}
    /\ \E r \in returned : r.task.kind = "startSession" /\ r.result = "ok"
    /\ \E p \in Props :
        /\ IsRegistered(deviceProperties, p)
        /\ Listners(deviceProperties, p) # <<>>
        /\ ReRequests(microtasks, p) = 1

\* this step is the transport's disconnect
Disconnects == state = "CONNECTED" /\ state' = "DISCONNECTED"

\* C9, as the claim states it: the disconnect resets every registered flag.
C9_DisconnectClearsRegistered ==
    [][Disconnects =>
        \A p \in DOMAIN deviceProperties' : ~deviceProperties'[p].registered]_vars

\* C9: the disconnect resets the session state to None and leaves the
\* subscription table, registered flags included, as it is; a flag that is
\* set is never cleared; and the step that completes the next handshake
\* re-requests every subscription whose flag is set.
C9_DisconnectKeepsRegistered ==
    [][/\ Disconnects => sessionState' = "None" /\ deviceProperties' = deviceProperties
       /\ \A p \in Props :
            IsRegistered(deviceProperties, p) => IsRegistered(deviceProperties', p)
       /\ SessionStarted =>
            \A p \in Props :
                IsRegistered(deviceProperties, p) => ReRequests(microtasks', p) >= 1]_vars

C9_Witness ==
    /\ state = "DISCONNECTED"
    /\ socket = "null"
    /\ sessionState = "None"
    /\ \E p \in Props :
        IsRegistered(deviceProperties, p) /\ Listners(deviceProperties, p) # <<>>

IsRegistration(t, p, l) ==
    t.kind = "registerPropertyListener" /\ t.prop = p /\ t.lis = l

\* this step is the call registerPropertyListener(p, l)
Registers(p, l) ==
    /\ budget' < budget
    /\ \/ Count(InFlight', LAMBDA t : IsRegistration(t, p, l))
            > Count(InFlight, LAMBDA t : IsRegistration(t, p, l))
       \/ \E r \in returned' : IsRegistration(r.task, p, l)

\* after is before with one entry that holds element taken out
RemovedOne(before, after, element) ==
    \E i \in 1..Len(before) : before[i] = element /\ after = Splice(before, i)

C11_EveryListenerInvoked ==
    [][handled' = CN_RPDO_NOTIFICATION =>
        invoked' = Listners(deviceProperties, inbound'.pdid)]_vars

\* C12: a call that receives the confirm it waits for with a result code
\* other than OK fails, and the step that delivers it marks no property
\* registered.
C12_NotOkFails ==
    [][\A r \in returned' :
        resultCode(r.msg) # "OK" =>
            /\ r.error # "none"
            /\ \A p \in Props :
                IsRegistered(deviceProperties', p) => IsRegistered(deviceProperties, p)]_vars

\* the ids handed to socket.write in this step
WrittenIds == {written'[k].id : k \in 1..Len(written')}

\* C13: the message-id counter never decreases; an id handed out is greater
\* than every id handed out before (the first is 1), ids of one step
\* increase, an id that transport.send returns is such an id, and an id is
\* never in pendingReplies when it is handed out, so an entry is never
\* replaced.
C13_IdsIncrease ==
    [][/\ messageId' >= messageId
       /\ \A k \in 1..Len(written') :
            /\ written'[k].id = messageId + k
            /\ written'[k].id <= messageId'
            /\ written'[k].id \notin pendingReplies
       /\ \A r \in returned' :
            (r.task.kind \in {"transport.send", "sendKeepAlive"} /\ r.error = "none")
                => r.id \in WrittenIds
       /\ (pendingReplies' \ pendingReplies) \subseteq WrittenIds]_vars

C13_Witness ==
    /\ Len(written) = 1
    /\ written[1].task.kind = "sendKeepAlive"
    /\ written[1].id = messageId
    /\ \E i \in pendingReplies : i < messageId /\ i \notin DOMAIN waiters
    /\ \E i \in DOMAIN waiters : i < messageId

\* C14: the connection state moves only Disconnected -> Connecting,
\* Connecting -> Connected, Connecting -> Disconnected and Connected ->
\* Disconnected; connect() outside Disconnected fails and leaves the state
\* and the socket as they are.
C14_ConnectionStates ==
    [][/\ state' # state =>
            <<state, state'>> \in {<<"DISCONNECTED", "CONNECTING">>,
                                   <<"CONNECTING", "CONNECTED">>,
                                   <<"CONNECTING", "DISCONNECTED">>,
                                   <<"CONNECTED", "DISCONNECTED">>}
       /\ \A r \in returned' :
            r.task.kind = "transport.connect" =>
                IF budget' < budget
                THEN /\ state # "DISCONNECTED"
                     /\ r.error = "AlreadyConnecting"
                     /\ state' = state
                     /\ socket' = socket
                ELSE state = "CONNECTING"
       /\ \A r \in returned' :
            r.error = "AlreadyConnecting" => state' = state /\ socket' = socket]_vars

C14_Witness ==
    /\ state = "CONNECTED"
    /\ socket = "open"
    /\ \E r \in returned :
        r.task.kind = "transport.connect" /\ r.result = "AlreadyConnecting"

Disconnected(events) == Count(events, LAMBDA e : e.event = "disconnect")

\* C15: the disconnect event is emitted only in the step that takes the
\* transport from Connected to Disconnected, once, and that step clears the
\* keep-alive interval and drops the socket; and a connection whose socket
\* has been ended by disconnect() or by a timeout does reach that step.
C15_DisconnectOnce ==
    /\ [][/\ Disconnected(emitted') <= 1
          /\ Disconnected(emitted') = 1 <=> (state = "CONNECTED" /\ state' # "CONNECTED")
          /\ Disconnected(emitted') = 1 =>
                /\ state' = "DISCONNECTED"
                /\ socket' = "null"
                /\ keepAliveHandle = "armed"
                /\ keepAliveHandle' = "cleared"]_vars
    /\ (socket \in {"closing", "destroyed"}) ~> (state = "DISCONNECTED")

C15_Witness ==
    /\ state = "DISCONNECTED"
    /\ socket = "null"
    /\ keepAliveHandle = "cleared"
    /\ emitted = <<[event |-> "disconnect", msg |-> NoMsg]>>
    /\ messageId > 0

\* C16: transport.send outside Connected fails with the disconnected error,
\* hands nothing to the socket and leaves the message-id counter as it is.
C16_SendWhileDisconnected ==
    [][\A r \in returned' :
        /\ (r.task.kind = "transport.send" /\ state # "CONNECTED")
                => r.error = "Disconnected"
        /\ r.error = "Disconnected" =>
                /\ state # "CONNECTED"
                /\ r.result = "Disconnected"
                /\ written' = <<>>
                /\ messageId' = messageId]_vars

C16_Witness ==
    /\ state = "DISCONNECTED"
    /\ messageId > 0
    /\ written = <<>>
    /\ \E r \in returned : r.task.kind = "transport.send" /\ r.result = "Disconnected"

\* C17: a socket error while Connecting rejects the connect() in progress
\* with that error, leaves the transport Disconnected without a socket,
\* arms no keep-alive interval, emits no event and starts no new attempt.
C17_ConnectError ==
    [][(state = "CONNECTING" /\ state' # "CONNECTED" /\ connectWaiter' # connectWaiter) =>
        /\ state' = "DISCONNECTED"
        /\ socket' = "null"
        /\ keepAliveHandle' = keepAliveHandle
        /\ keepAliveHandle' # "armed"
        /\ emitted' = <<>>
        /\ connectWaiter' = NoTask
        /\ \E r \in returned' :
            /\ r.task = connectWaiter
            /\ r.error = "ConnectError"
            /\ (Propagates(r.task) \/ r.task.kind = "transport.connect")
                    => r.result = "ConnectError"]_vars

C17_Witness ==
    /\ state = "DISCONNECTED"
    /\ socket = "null"
    /\ keepAliveHandle = "cleared"
    /\ emitted = <<>>
    /\ \E r \in returned : r.task.kind = "transport.connect" /\ r.result = "ConnectError"

\* String.prototype.toLowerCase on hex digits
toLowerCase(s) ==
    [i \in 1..Len(s) |->
        IF \E k \in 1..16 : UpperHexDigits[k] = s[i]
        THEN HexDigits[CHOOSE k \in 1..16 : UpperHexDigits[k] = s[i]]
        ELSE s[i]]

IsHexString(s) == \A i \in 1..Len(s) : IsHex(s[i])

\* uuids of at most 32 hex digits and lengths the fields can hold (the
\* samples stay below 2^31)
InFieldRanges(in) ==
    /\ Len(in.senderUuid) <= 32 /\ IsHexString(in.senderUuid)
    /\ Len(in.receiverUuid) <= 32 /\ IsHexString(in.receiverUuid)
    /\ in.opLength \in 0..65535
    /\ in.messageLength >= 0

HeaderBytes(in, out) ==
    /\ out.error = "none"
    /\ Len(out.binary) = 38
    /\ readUInt32BE(out.binary, 0) = 38 + in.opLength + in.messageLength - 4
    /\ out.parsed.opLength = in.opLength
    /\ out.parsed.messageLength = in.messageLength

\* C19 as stated: a header read back from its binary form has the uuids it
\* was built with, zero-left-padded to 32 digits, and the same lengths; the
\* binary form has 38 bytes and starts with the total length less 4.
C19_RoundTripSame ==
    (codecOut.kind = "header" /\ InFieldRanges(codecIn)) =>
        /\ HeaderBytes(codecIn, codecOut)
        /\ codecOut.parsed.senderUuid = padStart(codecIn.senderUuid, 32)
        /\ codecOut.parsed.receiverUuid = padStart(codecIn.receiverUuid, 32)

\* C19, amended: a header read back from its binary form has the uuids it
\* was built with, zero-left-padded to 32 digits and in lowercase, and the
\* same lengths; the binary form has 38 bytes and starts with the total
\* length less 4.
C19_RoundTripLowercase ==
    (codecOut.kind = "header" /\ InFieldRanges(codecIn)) =>
        /\ HeaderBytes(codecIn, codecOut)
        /\ codecOut.parsed.senderUuid = toLowerCase(padStart(codecIn.senderUuid, 32))
        /\ codecOut.parsed.receiverUuid = toLowerCase(padStart(codecIn.receiverUuid, 32))

C19_Witness ==
    /\ codecOut.kind = "header"
    /\ InFieldRanges(codecIn)
    /\ codecIn.senderUuid = <<"A", "F", "0", "1">>
    /\ codecIn.receiverUuid = CLIENT_UUID
    /\ codecIn.opLength = 65535
    /\ codecIn.messageLength = 16777219
    /\ codecOut.parsed.senderUuid # padStart(codecIn.senderUuid, 32)
    /\ codecOut.parsed.receiverUuid = CLIENT_UUID

\* the bytes of the buffer from position `from` (0-based), `count` of them
BytesAt(data, from, count) == [i \in 1..count |-> data[from + i]]


\* C20: decoding at an offset fails with frame-too-short when fewer than 38
\* bytes remain, with truncated-operation when opLength exceeds the bytes
\* left after the header, with truncated-payload when the derived
\* messageLength exceeds the bytes left after the operation; slices that
\* are returned lie within the buffer and have the announced lengths.
C20_DecodeAtOffset ==
    codecOut.kind = "frame" =>
        LET data == codecIn.data
            offset == codecIn.offset
            remaining == Len(data) - offset
            opLength == readUInt16BE(data, offset + 36)
            messageLength == readUInt32BE(data, offset) + 4 - 38 - opLength
        IN  IF remaining < 38 THEN codecOut.error = "FrameTooShort"
            ELSE IF opLength > remaining - 38 THEN codecOut.error = "TruncatedOperation"
            ELSE IF messageLength > remaining - 38 - opLength
            THEN codecOut.error = "TruncatedPayload"
            ELSE /\ codecOut.error = "none"
                 /\ offset + 38 + opLength + Max(messageLength, 0) <= Len(data)
                 /\ codecOut.operation = BytesAt(data, offset + 38, opLength)
                 /\ codecOut.message =
                        BytesAt(data, offset + 38 + opLength, Max(messageLength, 0))

C20_Witness ==
    /\ codecOut.kind = "frame"
    /\ codecIn.offset = 45
    /\ Len(codecIn.data) - codecIn.offset >= 38 + 4
    /\ codecOut.header.opLength = 4
    /\ codecOut.header.messageLength = 3
    /\ codecOut.error = "TruncatedPayload"

\* the envelopes of the message events among the events, in order
RECURSIVE MessageEvents(_)
MessageEvents(events) ==
    IF events = <<>> THEN <<>>
    ELSE (IF Head(events).event = "message" THEN <<Head(events).msg>> ELSE <<>>)
         \o MessageEvents(Tail(events))

\* C18: a chunk of N complete concatenated envelopes raises N message
\* events, in the order of the envelopes, each with the opcode, id and
\* payload of its envelope.
C18_ChunkRaisesAll ==
    (received.event /\ received.cut = 0) => MessageEvents(emitted) = received.envelopes

\* ... which is what happens as long as no printer formats VERBOSE lines
C18_QuietChunkRaisesAll ==
    (received.event /\ received.cut = 0 /\ ~logVerbose)
        => MessageEvents(emitted) = received.envelopes

\* the width of a fixed-width type in bytes
Width(type) ==
    CASE type \in {"CN_BOOL", "CN_UINT8", "CN_INT8"} -> 1
      [] type \in {"CN_UINT16", "CN_INT16"} -> 2
      [] type \in {"CN_UINT32", "CN_INT32", "CN_TIME"} -> 4
      [] type = "CN_INT64" -> 8

\* byte i (0 = least significant) of the two's complement form of a number
ByteOf(v, i) ==
    LET limb == v[(i \div 2) + 1] % 65536
    IN  IF i % 2 = 0 THEN limb % 256 ELSE limb \div 256

\* C21: for every fixed-width type and every value of its range, the
\* serialized value has the width of the type, its bytes are the bytes of
\* the value least significant first, and deserializing it gives the value.
C21_ValueRoundTrip ==
    codecOut.kind = "value" =>
        /\ codecOut.value = codecIn.value
        /\ Len(codecOut.data) = Width(codecIn.type)
        /\ codecIn.type # "CN_BOOL" =>
              \A i \in 1..Len(codecOut.data) : codecOut.data[i] = ByteOf(codecIn.value, i - 1)

C21_Witness ==
    /\ codecOut.kind = "value"
    /\ codecIn.type = "CN_UINT32"
    /\ codecIn.value = <<22136, 37035, 0, 0>>
    /\ codecOut.data = <<120, 86, 171, 144>>
    /\ codecOut.value = codecIn.value

IsStartSession(t) == t.kind = "startSession"

\* C28: a call of startSession() while the session state is Registering or
\* Active fails with the already-active error: no handshake begins, nothing
\* is written or queued, and the session state stays as it was.
C28_StartSessionWhileActive ==
    [][(budget' < budget /\ sessionState # "None") =>
        /\ Count(InFlight', IsStartSession) <= Count(InFlight, IsStartSession)
        /\ \A r \in returned' : r.task.kind = "startSession" =>
            /\ r.error = "AlreadyActive"
            /\ r.result = "AlreadyActive"
            /\ written' = <<>>
            /\ microtasks' = microtasks
            /\ messageId' = messageId
            /\ pendingReplies' = pendingReplies
            /\ sessionState' = sessionState]_vars

C28_Witness ==
    /\ sessionState = "Active"
    /\ written = <<>>
    /\ \E r \in returned : r.task.kind = "startSession" /\ r.result = "AlreadyActive"

IsStopSession(t) == t.kind = "stopSession"
StopSessionInHandshake(t) == IsStopSession(t) /\ t.inSS

\* C30: stopSession() leaves the session state None when it returns, and the
\* call itself never runs a register/start-session handshake.
C30_StopSessionLeavesNone ==
    /\ Count(InFlight, StopSessionInHandshake) = 0
    /\ \A r \in returned : r.task.kind = "stopSession" => sessionState = "None"

\* C30, second half alone: the state when stopSession() returns.
C30_NoneOnReturn ==
    \A r \in returned :
        (r.task.kind = "stopSession" /\ r.error = "none") => sessionState = "None"

IsWriteProperty(t) == t.kind = "writeProperty"

NoIO ==
    /\ state' = state
    /\ socket' = socket
    /\ sessionState' = sessionState
    /\ messageId' = messageId
    /\ pendingReplies' = pendingReplies
    /\ connectWaiter' = connectWaiter
    /\ waiters' = waiters
    /\ microtasks' = microtasks
    /\ written' = <<>>

\* the writeProperty calls at work or returning, for properties whose access
\* is in the given set, have all failed with the read-only error in the step
\* of the call, which connected nothing, started no session and sent nothing
FailsFast(accesses) ==
    /\ \A k \in 1..Len(InFlight') :
            IsWriteProperty(InFlight'[k]) => InFlight'[k].access \notin accesses
    /\ \A r \in returned' :
            (IsWriteProperty(r.task) /\ r.task.access \in accesses) =>
                r.error = "ReadOnly" /\ r.result = "ReadOnly" /\ budget' < budget /\ NoIO

\* C27 (as stated): writeProperty on a property that is not marked read-write
\* (access 'ro' or absent) fails with the read-only error before any I/O.
C27_NotReadWriteFailsFast == [][FailsFast({"ro", "absent"})]_vars

\* C27 (amended): writeProperty on a property marked 'ro' fails with the
\* read-only error before any I/O: no connect, no session start, no request.
C27_ReadOnlyFailsFast == [][FailsFast({"ro"})]_vars

C27_Witness ==
    /\ state = "CONNECTED"
    /\ sessionState = "Active"
    /\ written = <<>>
    /\ \E r \in returned :
        IsWriteProperty(r.task) /\ r.task.access = "ro" /\ r.error = "ReadOnly"

\* a property without an access mark is written to the device
C27_AbsentIsWritten ==
    \E k \in 1..Len(written) :
        /\ written[k].opcode = CN_RMI_REQUEST
        /\ written[k].task.access = "absent"

\* C29: between two resets a DeferredPromise is settled at most once.  The
\* first resolve or reject settles the inner promise and sets isResolved; any
\* further resolve or reject throws, leaves isResolved true and the outcome
\* as it was; reset() makes isResolved false again, with a pending promise.
C29_SettledOnce ==
    [][/\ (deferred'.last \in {"resolve", "reject"} /\ deferred.isResolved) =>
            /\ deferred'.thrown
            /\ deferred'.isResolved
            /\ deferred'.innerPromise = deferred.innerPromise
       /\ (deferred'.last \in {"resolve", "reject"} /\ ~deferred.isResolved) =>
            /\ ~deferred'.thrown
            /\ deferred'.isResolved
            /\ deferred'.innerPromise.state =
                 (IF deferred'.last = "resolve" THEN "resolved" ELSE "rejected")
       /\ deferred'.last = "reset" =>
            /\ ~deferred'.thrown
            /\ ~deferred'.isResolved
            /\ deferred'.innerPromise = PendingPromise
       /\ deferred'.earlier \in {deferred.earlier, Append(deferred.earlier, deferred.innerPromise)}]_vars

C29_Witness ==
    /\ deferred.kind = "deferred"
    /\ Len(deferred.earlier) = 1
    /\ deferred.last = "resolve"
    /\ deferred.thrown
    /\ deferred.isResolved
    /\ deferred.innerPromise = [state |-> "rejected", value |-> "e1"]

NoDuplicates(seq) ==
    \A i, j \in 1..Len(seq) : seq[i] = seq[j] => i = j

UuidsOf(devices) == [i \in 1..Len(devices) |-> devices[i].uuid]

Outcome == discovery.promise.innerPromise

\* C24: within a run each uuid raises at most one discover event and is at
\* most once among the devices and in the result, and a response with a uuid
\* seen before changes nothing, whatever address it carries.
C24_DedupByUuid ==
    [][(discovery'.kind = "discovery" /\ discovery.kind = "discovery") =>
        /\ NoDuplicates(discovery'.discovered)
        /\ NoDuplicates(UuidsOf(discovery'.discoveredDevices))
        /\ discovery'.promise.innerPromise.state = "resolved" =>
                NoDuplicates(UuidsOf(discovery'.promise.innerPromise.value))
        /\ (discovery'.last = "message" /\ ~discovery'.input.malformed
                /\ \E i \in 1..Len(discovery.discoveredDevices) :
                        discovery.discoveredDevices[i].uuid = discovery'.input.uuid) =>
                /\ discovery'.discovered = discovery.discovered
                /\ discovery'.discoveredDevices = discovery.discoveredDevices
                /\ \A k \in 1..Len(discovery'.trace) : discovery'.trace[k] # "discover"]_vars

C24_Witness ==
    /\ InRun
    /\ discovery.last = "message"
    /\ Len(discovery.discovered) = 1
    /\ discovery.input.uuid = discovery.discoveredDevices[1].uuid
    /\ discovery.input.address # discovery.discoveredDevices[1].address
    /\ discovery.trace = <<>>

TimersCancelled(x) == x.timeoutHandle # "armed" /\ x.broadcastHandle # "armed"

\* C23: with a limit, the step in which the number of distinct devices
\* reaches the limit cancels the timers, closes the socket and resolves the
\* run with all devices so far; discover events, devices and result never
\* number more than the limit.
C23_StopsAtLimit ==
    [][(discovery'.kind = "discovery" /\ discovery.kind = "discovery" /\ discovery.limit # 0) =>
        /\ Len(discovery'.discovered) <= discovery.limit
        /\ Len(discovery'.discoveredDevices) <= discovery.limit
        /\ discovery'.promise.innerPromise.state = "resolved" =>
                Len(discovery'.promise.innerPromise.value) <= discovery.limit
        /\ (Len(discovery.discoveredDevices) < discovery.limit
                /\ Len(discovery'.discoveredDevices) = discovery.limit) =>
                /\ discovery'.last = "message"
                /\ discovery'.trace = <<"discover", "resolve", "completed", "cleanup", "close">>
                /\ TimersCancelled(discovery')
                /\ discovery'.timeoutHandle # "fired"
                /\ discovery'.socket = "closed"
                /\ discovery'.promise.innerPromise =
                        [state |-> "resolved", value |-> discovery'.discoveredDevices]]_vars

C23_Witness ==
    /\ InRun
    /\ discovery.limit = 2
    /\ discovery.last = "message"
    /\ Len(discovery.discoveredDevices) = 2
    /\ discovery.discoveredDevices[1].uuid # discovery.discoveredDevices[2].uuid
    /\ discovery.socket = "closed"
    /\ discovery.timeoutHandle = "cleared"
    /\ Outcome = [state |-> "resolved", value |-> discovery.discoveredDevices]

Emitted(x, event) == \E k \in 1..Len(x.trace) : x.trace[k] = event

\* what a malformed datagram is to bring about
MalformedAborts ==
    (discovery'.last = "message" /\ discovery'.input.malformed) =>
        /\ Emitted(discovery', "error")
        /\ discovery'.promise.innerPromise = [state |-> "rejected", value |-> "ParseError"]
        /\ TimersCancelled(discovery')
        /\ discovery'.socket = "closed"

NoDiscoverAfterReject ==
    discovery.promise.innerPromise.state = "rejected" =>
        discovery'.discovered = discovery.discovered

\* C25: a malformed datagram raises an error event and aborts the run: the
\* promise is rejected with the parse error, the timers are cleared, the
\* socket is closed, and no discover event follows.
C25_MalformedAborts ==
    [][(discovery'.kind = "discovery" /\ discovery.kind = "discovery") =>
        MalformedAborts /\ NoDiscoverAfterReject]_vars

\* C25 for a run that has an 'error' listener
C25_WithErrorListener ==
    [][(discovery'.kind = "discovery" /\ discovery.kind = "discovery"
            /\ discovery.errorListener) =>
        MalformedAborts /\ NoDiscoverAfterReject]_vars

\* the run goes on after a malformed datagram
C25_GoesOn ==
    /\ InRun
    /\ discovery.last = "message"
    /\ discovery.input.malformed
    /\ discovery.uncaught = "UnhandledError"
    /\ Outcome.state = "pending"
    /\ discovery.socket = "bound"
    /\ discovery.timeoutHandle = "armed"

Position(trace, what) ==
    IF \E k \in 1..Len(trace) : trace[k] = what
    THEN CHOOSE k \in 1..Len(trace) : trace[k] = what
    ELSE 0

\* C26: cleanup is idempotent: whatever paths trigger it, the socket is closed
\* at most once (and no cleanup fails).
C26_SocketClosedOnce ==
    InRun => discovery.closeCalls <= 1 /\ discovery.uncaught # "NotRunning"

\* C26, second half: on every path cleanup runs before the promise is settled.
C26_CleanupBeforeSettle ==
    InRun =>
        \A how \in {"resolve", "reject"} :
            Emitted(discovery, how) =>
                /\ Emitted(discovery, "cleanup")
                /\ Position(discovery.trace, "cleanup") < Position(discovery.trace, how)

\* what holds instead: in the handler that settles the promise, cleanup
\* follows the settling call
C26_SettleThenCleanup ==
    InRun =>
        \A how \in {"resolve", "reject"} :
            Emitted(discovery, how) =>
                /\ Emitted(discovery, "cleanup")
                /\ Position(discovery.trace, how) < Position(discovery.trace, "cleanup")

\* the same with an 'error' listener attached
C26_WithErrorListener ==
    (InRun /\ discovery.errorListener) =>
        discovery.closeCalls <= 1 /\ discovery.uncaught # "NotRunning"

Settled(x) == x.promise.innerPromise.state # "pending"

\* how the handler that has just run may have settled the run
SettledAsClaimed(x) ==
    LET outcome == x.promise.innerPromise
    IN  CASE outcome.state = "resolved" ->
                /\ x.last \in {"timeout", "message"}
                /\ x.last = "message" => Len(x.discoveredDevices) = x.limit
                /\ outcome.value = x.discoveredDevices
          [] outcome.state = "rejected" ->
                \/ outcome.value = "Aborted" /\ x.last \in {"abort", "bind", "message"}
                \/ outcome.value = "ParseError" /\ x.last = "message" /\ x.input.malformed
                \/ outcome.value = "SocketError" /\ x.last \in {"socketError", "bindError"}
                \/ outcome.value = "SendError" /\ x.last = "sent"
          [] OTHER -> FALSE

\* C22, safety: a run is settled at most once, never both ways: once the
\* promise is resolved or rejected its outcome never changes and no second
\* resolve or reject is attempted; it resolves on timeout or limit with the
\* devices so far and rejects on abort, malformed datagram or socket error.
C22_SettlesOnce ==
    [][(discovery'.kind = "discovery" /\ discovery.kind = "discovery") =>
        /\ discovery'.uncaught # "AlreadySettled"
        /\ Settled(discovery) =>
                discovery'.promise.innerPromise = discovery.promise.innerPromise
        /\ (~Settled(discovery) /\ Settled(discovery')) => SettledAsClaimed(discovery')]_vars

Started == InRun /\ discovery.calls > 0

\* C22: once started, a run eventually settles.
C22_EventuallySettles == Started ~> Settled(discovery)

\* C22 for a run that has an 'error' listener
C22_SettlesWithErrorListener ==
    (Started /\ discovery.errorListener) ~> Settled(discovery)

\* C31: callbacks attached with then / catch / finally after the run has
\* settled observe the outcome of the run, as callbacks attached while the
\* run was in flight do.
C31_LateThenSameOutcome ==
    (InRun /\ discovery.last = "then") =>
        /\ Settled(discovery) => discovery.observed = Outcome
        /\ ~Settled(discovery) => discovery.observed.state = "pending"

\* then() while the run is in flight is attached to the promise of the run
C31_ThenInFlight ==
    (InRun /\ discovery.last = "then" /\ discovery.discoveryPromise = "set") =>
        discovery.observed = Outcome

\* a run that resolved, awaited afterwards
C31_LateThenRejects ==
    /\ InRun
    /\ discovery.last = "then"
    /\ Outcome.state = "resolved"
    /\ Len(Outcome.value) = 1
    /\ discovery.observed = [state |-> "rejected", value |-> "NoDiscoveryInProgress"]

\* C32: when two completions race for one pending request, the first settles
\* it and the later one is a no-op: no call returns twice for one request id
\* and no error escapes from processMessage.
C32_LaterCompletionNoOp ==
    /\ \A r \in returned : r.task.kind = "processMessage" => r.result # "unhandled"
    /\ \A r1, r2 \in returned : (r1.id = r2.id /\ r1.id # 0) => r1 = r2

\* two envelopes of one chunk under the id of a pending request
C32_SecondResolveThrows ==
    /\ received.event
    /\ Len(received.envelopes) = 2
    /\ received.envelopes[1].id = received.envelopes[2].id
    /\ \E r \in returned : r.task.kind = "processMessage" /\ r.error = "AlreadySettled"
    /\ \E r \in returned : r.task.kind = "send" /\ r.error = "none"

IsReRequest(t) == t.kind = "requestPropertyUpdates"

\* C33: startSession() returns in the step that makes the session Active,
\* with the re-issued subscription requests still waiting to be sent; a
\* re-issued request that fails or times out is logged only: it fails no
\* startSession() and leaves the session state as it is.
C33_ReRegisterNotAwaited ==
    [][/\ \A r \in returned' :
            (r.task.kind = "startSession" /\ r.error = "none") =>
                /\ SessionStarted
                /\ \A p \in Props :
                        ReRequests(microtasks', p) =
                            (IF IsRegistered(deviceProperties, p) THEN 1 ELSE 0)
       /\ (SessionStarted /\ inbound'.id \in DOMAIN waiters
                /\ waiters[inbound'.id].kind = "startSession") =>
            \E r \in returned' : r.task = waiters[inbound'.id] /\ r.result = "ok"
       /\ \A r \in returned' :
            (IsReRequest(r.task) /\ r.error # "none") =>
                /\ r.result = "logged"
                /\ sessionState' = sessionState
                /\ \A q \in returned' : q.task.kind = "startSession" => q.error = "none"]_vars

C33_Witness ==
    /\ sessionState = "Active"
    /\ \E r \in returned :
        /\ IsReRequest(r.task)
        /\ r.error = "Timeout"
        /\ r.result = "logged"

\* C34: session state Active implies that the transport is Connected: the
\* handler of a session-closed notification sets the session state to None
\* and asks the transport to disconnect, and the transport's disconnect sets
\* the session state to None.
C34_ActiveImpliesConnected ==
    [][/\ sessionState' = "Active" => state' = "CONNECTED"
       /\ handled' = CLOSE_SESSION_REQUEST =>
            /\ sessionState' = "None"
            /\ socket' \notin {"open"}
       /\ Disconnects => sessionState' = "None"]_vars

C34_Witness ==
    /\ handled = CLOSE_SESSION_REQUEST
    /\ sessionState = "None"
    /\ state = "CONNECTED"
    /\ socket = "closing"
    /\ messageId = 2
    /\ pendingReplies = {}

\* C35: an exception of a notification handler (of a property listener, of
\* the payload's deserialization) is caught and logged by processMessage:
\* nothing escapes, and the connection state, the socket, the keep-alive
\* timer, the session state and the pending table are as before.
C35_HandlerExceptionLogged ==
    [][(inbound' # NoMsg /\ inbound'.id \notin pendingReplies
            /\ handlerThrows(Cur, inbound')) =>
        /\ \E r \in returned' :
                r.task.kind = "processMessage" /\ r.error = "HandlerThrew"
        /\ \A r \in returned' : r.task.kind = "processMessage" => r.result = "logged"
        /\ state' = state
        /\ socket' = socket
        /\ keepAliveHandle' = keepAliveHandle
        /\ sessionState' = sessionState
        /\ pendingReplies' = pendingReplies
        /\ waiters' = waiters]_vars

C35_Witness ==
    /\ inbound.opcode = CN_RPDO_NOTIFICATION
    /\ inbound.id = 0
    /\ payloadOf(inbound) = "valid"
    /\ invoked # <<>>
    /\ invoked[Len(invoked)] \in Throwers
    /\ pendingReplies # {}
    /\ \E r \in returned : r.task.kind = "processMessage" /\ r.result = "logged"

\* the same with a payload that does not decode
C35_WitnessPayload ==
    /\ payloadOf(inbound) = "short"
    /\ invoked = <<>>
    /\ \E r \in returned : r.task.kind = "processMessage" /\ r.result = "logged"

\* the envelopes of a chunk that decode, up to the first one that does not
RECURSIVE ParsedBefore(_, _)
ParsedBefore(data, offset) ==
    IF offset >= Len(data) THEN <<>>
    ELSE LET f == decodeFrame(data, offset)
             operation == readFields(f.operation, 1, <<>>)
         IN  IF f.error # "none" \/ ~operation.ok THEN <<>>
             ELSE <<ComfoControlMessage(operation.fields, f.message)>>
                  \o ParsedBefore(data, offset + headerLength(f.header))

\* the envelopes in front of the first one whose VERBOSE log line throws
RECURSIVE LoggedBefore(_, _)
LoggedBefore(envelopes, verbose) ==
    IF envelopes = <<>> \/ (verbose /\ deserializeThrows(Head(envelopes))) THEN <<>>
    ELSE <<Head(envelopes)>> \o LoggedBefore(Tail(envelopes), verbose)

C36_WitnessOperation ==
    /\ received.event
    /\ messagesFromBinary(received.data, 0).error = "TruncatedOperation"
    /\ state = "CONNECTED"

C36_WitnessHeader ==
    /\ received.event
    /\ Len(received.envelopes) = 2
    /\ messagesFromBinary(received.data, 0).error = "FrameTooShort"
    /\ state = "CONNECTED"

\* C37: every running keep-alive interval has the period
\* max(keepAliveInterval or 30000, 5000); its tick finds the transport
\* Connected and hands a KEEP_ALIVE to the socket; a tick whose send fails
\* ends with the error logged, nothing escapes the timer callback, and the
\* connection state, the socket and the timer are as before the tick.
C37_KeepAliveSwallowed ==
    [][/\ \A i \in 1..Len(intervals') :
            /\ intervals'[i] >= 5000
            /\ intervals'[i] = IF keepAliveInterval.given
                               THEN Max(keepAliveInterval.ms, 5000) ELSE 30000
       /\ \A r \in returned' : r.task.kind = "sendKeepAlive" =>
            /\ state = "CONNECTED"
            /\ socket # "null"
            /\ Len(written') = 1
            /\ written'[1].opcode = KEEP_ALIVE
            /\ r.result \in {"ok", "logged"}
            /\ r.error # "none" =>
                /\ r.result = "logged"
                /\ state' = state
                /\ socket' = socket
                /\ keepAliveHandle' = keepAliveHandle
                /\ intervals' = intervals]_vars

\* a tick of a 5000 ms interval (1000 was configured) whose write fails
C37_Witness ==
    /\ keepAliveInterval = [given |-> TRUE, ms |-> 1000]
    /\ intervals = <<5000>>
    /\ state = "CONNECTED"
    /\ \E r \in returned :
        /\ r.task.kind = "sendKeepAlive"
        /\ r.result = "logged"
        /\ r.error = "WriteError"
    /\ Len(written) = 1
    /\ written[1].opcode = KEEP_ALIVE

\* C40: at most one keep-alive interval timer runs, and one runs only while
\* the transport is Connected (then the handle field holds it): none runs
\* while Disconnected or Connecting, whatever connects, disconnects and
\* failed connects came before.
C40_OneTimerWhileConnected ==
    /\ Len(intervals) <= 1
    /\ intervals # <<>> => (state = "CONNECTED" /\ keepAliveHandle = "armed")
    /\ state \in {"DISCONNECTED", "CONNECTING"} =>
            (intervals = <<>> /\ keepAliveHandle # "armed")
    /\ state = "CONNECTED" => Len(intervals) = 1

\* connected for the second time, after a connection that was closed
C40_Witness ==
    /\ state = "CONNECTED"
    /\ intervals = <<30000>>
    /\ \E k \in 1..Len(emitted) : emitted[k].event = "connect"
    /\ messageId >= 2
    /\ budget = 0

\* connecting again after a connection that was closed: no timer runs
C40_WitnessReconnecting ==
    /\ state = "CONNECTING"
    /\ keepAliveHandle = "cleared"
    /\ intervals = <<>>

IsSend(t) == t.kind = "send"
IsGuardedSend(t) == t.kind = "send" /\ t.op \notin SESSION_EXEMPT_OPCODES

\* the call of this step was refused and left no trace: nothing written,
\* nothing queued, and what the handshake in flight works on is as before
Undisturbed ==
    /\ written' = <<>>
    /\ UNCHANGED <<state, socket, sessionState, pendingReplies, microtasks, connectWaiter,
                   waiters, messageId, keepAliveHandle, intervals>>

\* C38: a send() issued while the transport is Connecting is rejected in
\* the call with 'Transport is already connecting', and a send() of a
\* non-exempt opcode issued while the session is Registering on a connected
\* transport is rejected in the call with the startSession error; neither
\* is queued or written, and the handshake in flight goes on undisturbed.
C38_OverlappingCallsRejected ==
    [][budget' < budget =>
        /\ state = "CONNECTING" =>
            /\ Count(InFlight', IsSend) <= Count(InFlight, IsSend)
            /\ \A r \in returned' : IsSend(r.task) =>
                /\ r.error = "AlreadyConnecting"
                /\ r.result = "AlreadyConnecting"
                /\ Undisturbed
        /\ (state = "CONNECTED" /\ sessionState = "Registering") =>
            /\ Count(InFlight', IsGuardedSend) <= Count(InFlight, IsGuardedSend)
            /\ \A r \in returned' : IsGuardedSend(r.task) =>
                /\ r.error = "AlreadyActive"
                /\ r.result = "AlreadyActive"
                /\ Undisturbed]_vars

\* a send() refused while the handshake of another call waits for its confirm
C38_Witness ==
    /\ state = "CONNECTED"
    /\ sessionState = "Registering"
    /\ pendingReplies # {}
    /\ written = <<>>
    /\ \E r \in returned : IsGuardedSend(r.task) /\ r.result = "AlreadyActive"

\* a send() refused while the connect of another call is under way
C38_WitnessConnecting ==
    /\ state = "CONNECTING"
    /\ connectWaiter.kind # "none"
    /\ written = <<>>
    /\ \E r \in returned : IsSend(r.task) /\ r.result = "AlreadyConnecting"

\* C39: fromBinary terminates on every buffer: a pass of its loop either
\* throws or moves the offset forward by the length the header declares, at
\* least four bytes, also when the derived messageLength is negative; the
\* passes are no more than the bytes allow, and the loop ends with the
\* outcome of fromBinary.
C39_OffsetAdvances ==
    [][codecOut'.kind = "loop" =>
        LET before == IF codecOut.kind = "loop" THEN codecOut.offset ELSE 0
        IN  /\ ~codecOut'.done =>
                /\ codecOut'.offset >= before + 4
                /\ codecOut'.iterations < MaxIterations
            /\ 4 * codecOut'.iterations <= Len(codecIn.data) + 4
            /\ codecOut'.done =>
                LET all == messagesFromBinary(codecIn.data, 0)
                IN  /\ codecOut'.error = all.error
                    /\ codecOut'.messages = Len(all.messages)]_vars

\* ... so that the loop, left to run, comes to its end
C39_Terminates == <>(codecOut.kind = "loop" /\ codecOut.done)

\* the loop has ended after stepping over a header with a negative
\* messageLength
C39_Witness ==
    /\ codecOut.kind = "loop"
    /\ codecOut.done
    /\ codecOut.negative
    /\ codecOut.iterations >= 3

\* ... and has returned messages
C39_WitnessReturns ==
    /\ codecOut.kind = "loop"
    /\ codecOut.done
    /\ codecOut.negative
    /\ codecOut.error = "none"
    /\ codecOut.messages >= 1
====
